---- MODULE Spec2Model ----
(***************************************************************************)
(* Model of internal/executor: the Executor, its CommandBuilder (fluent   *)
(* setters, Build), the terminal Execute calls with the process they run,  *)
(* and the accessors of the Result.                                        *)
(*                                                                         *)
(* Strings are TLA+ strings; fmt.Sprintf is modelled by concatenation, so  *)
(* that tokens built from different fields can collide exactly as the Go   *)
(* strings do.  A Go map is a function whose DOMAIN is the key set; the    *)
(* unspecified iteration order of `range` over a map is a                  *)
(* nondeterministic choice of a permutation of the keys.                   *)
(***************************************************************************)
EXTENDS Integers, Sequences, FiniteSets, TLC

VARIABLES
    config,   \* *config.Config held by the Executor
    b,        \* the CommandBuilder (record of its fields)
    call,     \* the last method called on the executor/builder, with arguments
    args,     \* argument list returned by the last Build / run by the last Execute
    h,        \* history of the calls made on the builder since Command()
    ex,       \* the Execute call in flight: its context, clock and process
    res,      \* Result and error returned by the last Execute
    out,      \* what the last accessor of the Result returned
    bs        \* the builders of the call paths that share the Executor

vars == <<config, b, call, args, h, ex, res, out, bs>>

\* the variables the builder's own methods never touch
others == <<ex, res, out, bs>>

-----------------------------------------------------------------------------
(* Bounds and input alphabets *)

\* calls (setters, Build and the terminal calls) made on one builder
MaxCalls == 3

\* the Configs: no default set ("" = environment variable unset), or all set
ConfigValues == {"", "a"}

\* values a caller passes to WithProject / WithRegion / WithZone
ScopeValues == {"", "b"}

\* values a caller passes to WithFlag / WithArrayFlag
FlagValues == {"", "a", "b"}

\* names a caller passes to WithFlag
FlagNames == {"region", "zone", "format", "project"}

\* names a caller passes to WithArrayFlag
ArrayNames == {"env", "format"}

\* names a caller passes to WithBoolFlag
BoolNames == {"quiet", "format=a"}

\* values a caller passes to WithFormat
FormatValues == {"", "yaml"}

\* argument lists a caller passes to Command
ComponentLists == {<< >>, <<"run", "list">>}

-----------------------------------------------------------------------------
(* Helpers *)

\* all orders in which `range` may visit the keys of a map
Perms(S) == {s \in [1..Cardinality(S) -> S] : \A x \in S : \E i \in DOMAIN s : s[i] = x}

MapOrders(m) == Perms(DOMAIN m)

\* m[k] = v on a Go map
MapPut(m, k, v) == [x \in (DOMAIN m) \cup {k} |-> IF x = k THEN v ELSE m[x]]

\* m[k] on a Go map: the zero value when the key is absent
MapGet(m, k, zero) == IF k \in DOMAIN m THEN m[k] ELSE zero

EmptyMap == [x \in {} |-> ""]

\* strings.HasPrefix
HasPrefix(s, p) == Len(s) >= Len(p) /\ SubSeq(s, 1, Len(p)) = p

\* fmt.Sprintf("--%s=%s", name, value)
SprintfNameValue(name, value) == "--" \o name \o "=" \o value

\* fmt.Sprintf("--%s", flag)
SprintfName(flag) == "--" \o flag

RECURSIVE Flatten(_)
Flatten(ss) == IF ss = << >> THEN << >> ELSE Head(ss) \o Flatten(Tail(ss))

\* the multiset of the elements of a sequence, as a function token -> count
BagOf(s) == [t \in {s[i] : i \in DOMAIN s} |-> Cardinality({i \in DOMAIN s : s[i] = t})]

-----------------------------------------------------------------------------
(* Executor.Command and the CommandBuilder mutators, as functions of the     *)
(* builder record                                                           *)

Command(cfg, components) ==
    [ components |-> components,
      flags      |-> EmptyMap,
      arrayFlags |-> EmptyMap,
      boolFlags  |-> << >>,
      project    |-> cfg.Project,
      region     |-> cfg.Region,
      zone       |-> cfg.Zone,
      format     |-> "json" ]

\* bug: the guard on the empty string is missing
WithProject_Unguarded(bb, project) == [bb EXCEPT !.project = project]

WithProject(bb, project) ==
    IF project # "" THEN [bb EXCEPT !.project = project] ELSE bb

WithRegion(bb, region) ==
    IF region # "" THEN [bb EXCEPT !.region = region] ELSE bb

WithZone(bb, zone) ==
    IF zone # "" THEN [bb EXCEPT !.zone = zone] ELSE bb

\* bug: the guard on the empty string is missing
WithFlag_Unguarded(bb, name, value) ==
    [bb EXCEPT !.flags = MapPut(bb.flags, name, value)]

\* bug: an existing key is not overwritten
WithFlag_FirstWins(bb, name, value) ==
    IF value # "" /\ name \notin DOMAIN bb.flags
    THEN [bb EXCEPT !.flags = MapPut(bb.flags, name, value)]
    ELSE bb

\* bug: a second value is joined to the stored one instead of replacing it
WithFlag_Joining(bb, name, value) ==
    IF value # ""
    THEN [bb EXCEPT !.flags = MapPut(bb.flags, name,
              IF name \in DOMAIN bb.flags THEN bb.flags[name] \o "," \o value ELSE value)]
    ELSE bb

WithFlag(bb, name, value) ==
    IF value # "" THEN [bb EXCEPT !.flags = MapPut(bb.flags, name, value)] ELSE bb

\* bug: assignment instead of append
WithArrayFlag_Overwrite(bb, name, value) ==
    IF value # ""
    THEN [bb EXCEPT !.arrayFlags = MapPut(bb.arrayFlags, name, <<value>>)]
    ELSE bb

WithArrayFlag(bb, name, value) ==
    IF value # ""
    THEN [bb EXCEPT !.arrayFlags =
              MapPut(bb.arrayFlags, name, Append(MapGet(bb.arrayFlags, name, << >>), value))]
    ELSE bb

WithBoolFlag(bb, name) ==
    [bb EXCEPT !.boolFlags = Append(bb.boolFlags, name)]

WithFormat(bb, format) == [bb EXCEPT !.format = format]

\* bug: text mode selected by a format name instead of by the empty string
WithTextFormat_Named(bb) == [bb EXCEPT !.format = "text"]

WithTextFormat(bb) == [bb EXCEPT !.format = ""]

-----------------------------------------------------------------------------
(* Build: components, flags, array flags, bool flags, project, format        *)

FlagArgs(bb, order) ==
    [i \in 1..Len(order) |-> SprintfNameValue(order[i], bb.flags[order[i]])]

ArrayFlagArgsOf(bb, name) ==
    [j \in 1..Len(bb.arrayFlags[name]) |-> SprintfNameValue(name, bb.arrayFlags[name][j])]

ArrayFlagArgs(bb, order) ==
    Flatten([i \in 1..Len(order) |-> ArrayFlagArgsOf(bb, order[i])])

BoolFlagArgs(bb) ==
    [i \in 1..Len(bb.boolFlags) |-> SprintfName(bb.boolFlags[i])]

ProjectArgs(bb) ==
    IF bb.project # "" THEN << "--project=" \o bb.project >> ELSE << >>

FormatArgs(bb) ==
    IF bb.format # "" THEN << "--format=" \o bb.format >> ELSE << >>

\* bug: Build appends the region field as it appends the project field
Build_WithRegion(bb, flagOrder, arrayOrder) ==
    bb.components \o FlagArgs(bb, flagOrder) \o ArrayFlagArgs(bb, arrayOrder)
        \o BoolFlagArgs(bb) \o ProjectArgs(bb)
        \o (IF bb.region # "" THEN << "--region=" \o bb.region >> ELSE << >>)
        \o FormatArgs(bb)

\* bug: the project is appended before the flags
Build_ProjectFirst(bb, flagOrder, arrayOrder) ==
    bb.components \o ProjectArgs(bb) \o FlagArgs(bb, flagOrder)
        \o ArrayFlagArgs(bb, arrayOrder) \o BoolFlagArgs(bb) \o FormatArgs(bb)

\* Build() when `range b.flags` visits the keys in flagOrder and
\* `range b.arrayFlags` visits them in arrayOrder
Build(bb, flagOrder, arrayOrder) ==
    bb.components \o FlagArgs(bb, flagOrder) \o ArrayFlagArgs(bb, arrayOrder)
        \o BoolFlagArgs(bb) \o ProjectArgs(bb) \o FormatArgs(bb)

\* every list Build() may return in builder state bb
BuildSet(bb) ==
    {Build(bb, fo, ao) : fo \in MapOrders(bb.flags), ao \in MapOrders(bb.arrayFlags)}

GetProject(bb) == bb.project

GetRegion(bb) == bb.region

GetZone(bb) == bb.zone

\* bug: the region is added as a repeatable flag
RegionInjected_Repeatable(bb) ==
    IF bb.region # "" THEN WithArrayFlag(bb, "region", bb.region) ELSE bb

\* bug: a flag the caller has set is left alone
RegionInjected_KeepsCaller(bb) ==
    IF bb.region # "" /\ "region" \notin DOMAIN bb.flags
    THEN WithFlag(bb, "region", bb.region) ELSE bb

\* the builder as ExecuteWithRegion / ExecuteWithZone hand it to Execute
RegionInjected(bb) == IF bb.region # "" THEN WithFlag(bb, "region", bb.region) ELSE bb

ZoneInjected(bb) == IF bb.zone # "" THEN WithFlag(bb, "zone", bb.zone) ELSE bb

\* the setter calls a caller can make, as <<method, arguments...>>
MutatorCalls ==
    {<<"WithProject", v>> : v \in ScopeValues}
        \cup {<<"WithRegion", v>> : v \in ScopeValues}
        \cup {<<"WithZone", v>> : v \in ScopeValues}
        \cup {<<"WithFlag", n, v>> : n \in FlagNames, v \in FlagValues}
        \cup {<<"WithArrayFlag", n, v>> : n \in ArrayNames, v \in FlagValues}
        \cup {<<"WithBoolFlag", n>> : n \in BoolNames}
        \cup {<<"WithFormat", v>> : v \in FormatValues}
        \cup {<<"WithTextFormat">>}

\* the builder after setter call c
Apply(bb, c) ==
    CASE c[1] = "WithProject"    -> WithProject(bb, c[2])
      [] c[1] = "WithRegion"     -> WithRegion(bb, c[2])
      [] c[1] = "WithZone"       -> WithZone(bb, c[2])
      [] c[1] = "WithFlag"       -> WithFlag(bb, c[2], c[3])
      [] c[1] = "WithArrayFlag"  -> WithArrayFlag(bb, c[2], c[3])
      [] c[1] = "WithBoolFlag"   -> WithBoolFlag(bb, c[2])
      [] c[1] = "WithFormat"     -> WithFormat(bb, c[2])
      [] c[1] = "WithTextFormat" -> WithTextFormat(bb)

-----------------------------------------------------------------------------
(* History of the calls made on the builder (what the caller did, kept      *)
(* apart from what the builder stored)                                      *)

NoHistory ==
    [ n       |-> 0,          \* calls made on the builder
      project |-> "",         \* last non-empty WithProject argument
      region  |-> "",         \* last non-empty WithRegion argument
      zone    |-> "",         \* last non-empty WithZone argument
      fmt     |-> "none",     \* last format call: none, WithFormat, WithTextFormat
      flag    |-> EmptyMap,   \* name -> value of the last WithFlag(name, v), v # ""
      array   |-> EmptyMap,   \* name -> values of the WithArrayFlag(name, v), v # ""
      bool    |-> << >>,      \* names of the WithBoolFlag(name) calls
      user    |-> {} ]        \* flag names the caller itself passed to a flag setter

LastNonEmpty(old, new) == IF new # "" THEN new ELSE old

CanCall == h.n < MaxCalls

Called(hh) == [hh EXCEPT !.n = hh.n + 1]

-----------------------------------------------------------------------------
(* Execute: the context the process runs under, and the Result and error     *)
(* computed from what cmd.Run() reported                                    *)

\* a nil pointer / nil error / nil json.RawMessage, and a non-nil one
Nil == << >>

Some(x) == <<x>>

\* context.Background(): never canceled, no deadline
Background == [deadlines |-> {}, canceled |-> FALSE]

\* context.WithTimeout(ctx, timeout) called at time now: the deadlines of the
\* parent stay in force, and cancelling the parent cancels the child
WithTimeout(ctx, now, timeout) == [ctx EXCEPT !.deadlines = @ \cup {now + timeout}]

\* <-ctx.Done() is ready at time now
Done(ctx, now) == ctx.canceled \/ \E d \in ctx.deadlines : d <= now

\* ctx.Err() of a context that is done
CtxErr(ctx) == IF ctx.canceled THEN "context canceled" ELSE "context deadline exceeded"

\* the error of cmd.Run(): nil, an *exec.ExitError, or any other error
NoError == [kind |-> "nil", code |-> 0, text |-> ""]

\* *exec.ExitError; ExitCode() is -1 for a process ended by a signal
ExitError(code) ==
    [ kind |-> "ExitError",
      code |-> code,
      text |-> IF code = -1 THEN "signal: killed" ELSE "exit status " \o ToString(code) ]

\* an error of cmd.Run() that is no *exec.ExitError
OtherError(text) == [kind |-> "error", code |-> 0, text |-> text]

\* unicode.IsSpace on the characters the outputs are made of
IsSpace(c) == c \in {" ", "\n", "\t", "\r"}

RECURSIVE TrimLeft(_)
TrimLeft(s) ==
    IF Len(s) > 0 /\ IsSpace(SubSeq(s, 1, 1)) THEN TrimLeft(SubSeq(s, 2, Len(s))) ELSE s

RECURSIVE TrimRight(_)
TrimRight(s) ==
    IF Len(s) > 0 /\ IsSpace(SubSeq(s, Len(s), Len(s)))
    THEN TrimRight(SubSeq(s, 1, Len(s) - 1))
    ELSE s

\* strings.TrimSpace
TrimSpace(s) == TrimRight(TrimLeft(s))

\* strings.Contains
Contains(s, sub) == \E i \in 0..(Len(s) - Len(sub)) : SubSeq(s, i + 1, i + Len(sub)) = sub

\* &Result{Stdout: ..., Stderr: ...}
NewResult(stdout, stderr) ==
    [JSON |-> Nil, Stdout |-> stdout, Stderr |-> stderr, ExitCode |-> 0]

\* bug: the exit code of the failed process is dropped
ExecuteReturn_NoExitCode(format, runErr, stdout, stderr) ==
    IF runErr # NoError
    THEN [ result |-> Some(NewResult(stdout, stderr)),
           err    |-> Some("gcloud command failed: " \o runErr.text
                               \o "\nstderr: " \o stderr) ]
    ELSE [ result |-> Some(NewResult(stdout, stderr)), err |-> Nil ]

\* bug: the payload is the untrimmed output
ExecuteReturn_Untrimmed(format, runErr, stdout, stderr) ==
    IF runErr # NoError
    THEN [ result |-> Some(NewResult(stdout, stderr)),
           err    |-> Some("gcloud command failed") ]
    ELSE [ result |-> Some(IF format = "json" /\ Len(stdout) > 0
                           THEN [NewResult(stdout, stderr) EXCEPT !.JSON = Some(stdout)]
                           ELSE NewResult(stdout, stderr)),
           err    |-> Nil ]

\* what Execute returns once cmd.Run() has returned runErr with stdout and
\* stderr in the two buffers
ExecuteReturn(format, runErr, stdout, stderr) ==
    IF runErr # NoError
    THEN [ result |-> Some([NewResult(stdout, stderr) EXCEPT
                               !.ExitCode = IF runErr.kind = "ExitError"
                                            THEN runErr.code
                                            ELSE 0]),
           err    |-> Some("gcloud command failed: " \o runErr.text
                               \o "\nstderr: " \o stderr) ]
    ELSE [ result |-> Some(IF format = "json" /\ Len(stdout) > 0
                                             /\ TrimSpace(stdout) # ""
                           THEN [NewResult(stdout, stderr) EXCEPT
                                    !.JSON = Some(TrimSpace(stdout))]
                           ELSE NewResult(stdout, stderr)),
           err    |-> Nil ]

\* no Execute has been called
NoExec ==
    [ pc     |-> "idle",       \* idle, built, running, waited, returned
      n      |-> 0,            \* terminal calls made so far
      now    |-> 0,            \* the clock
      entry  |-> 0,            \* the time the call was entered
      caller |-> Background,   \* the context the caller passed
      runs   |-> 0,            \* calls of cmd.Run() made by this call
      procs  |-> 0,            \* processes this call has started
      proc   |-> "none",       \* none, running, exited, signaled
      runErr |-> NoError,      \* what cmd.Run() returned
      stdout |-> "",           \* the two capture buffers
      stderr |-> "",
      failed |-> FALSE ]       \* an earlier terminal call returned an error

\* nothing returned yet
NoReturn == [result |-> Nil, err |-> Nil]

\* no accessor called yet
NoOut == <<"none">>

-----------------------------------------------------------------------------
(* State machine *)

Configs == {[Project |-> v, Region |-> v, Zone |-> v] : v \in ConfigValues}

Init ==
    /\ config \in Configs
    /\ \E components \in ComponentLists : b = Command(config, components)
    /\ call = <<"Command">>
    /\ args = << >>
    /\ h = NoHistory
    /\ ex = NoExec
    /\ res = NoReturn
    /\ out = NoOut
    /\ bs = << >>

DoCommand ==
    \E components \in ComponentLists :
        /\ b' = Command(config, components)
        /\ call' = <<"Command">>
        /\ args' = << >>
        /\ h' = NoHistory
        /\ UNCHANGED <<config, others>>

DoWithProject ==
    \E project \in ScopeValues :
        /\ CanCall
        /\ b' = WithProject(b, project)
        /\ call' = <<"WithProject", project>>
        /\ args' = << >>
        /\ h' = [Called(h) EXCEPT !.project = LastNonEmpty(h.project, project)]
        /\ UNCHANGED <<config, others>>

DoWithRegion ==
    \E region \in ScopeValues :
        /\ CanCall
        /\ b' = WithRegion(b, region)
        /\ call' = <<"WithRegion", region>>
        /\ args' = << >>
        /\ h' = [Called(h) EXCEPT !.region = LastNonEmpty(h.region, region)]
        /\ UNCHANGED <<config, others>>

DoWithZone ==
    \E zone \in ScopeValues :
        /\ CanCall
        /\ b' = WithZone(b, zone)
        /\ call' = <<"WithZone", zone>>
        /\ args' = << >>
        /\ h' = [Called(h) EXCEPT !.zone = LastNonEmpty(h.zone, zone)]
        /\ UNCHANGED <<config, others>>

DoWithFlag ==
    \E name \in FlagNames, value \in FlagValues :
        /\ CanCall
        /\ b' = WithFlag(b, name, value)
        /\ call' = <<"WithFlag", name, value>>
        /\ args' = << >>
        /\ h' = IF value # ""
                THEN [Called(h) EXCEPT !.flag = MapPut(h.flag, name, value),
                                       !.user = h.user \cup {name}]
                ELSE Called(h)
        /\ UNCHANGED <<config, others>>

DoWithArrayFlag ==
    \E name \in ArrayNames, value \in FlagValues :
        /\ CanCall
        /\ b' = WithArrayFlag(b, name, value)
        /\ call' = <<"WithArrayFlag", name, value>>
        /\ args' = << >>
        /\ h' = IF value # ""
                THEN [Called(h) EXCEPT
                        !.array = MapPut(h.array, name,
                                         Append(MapGet(h.array, name, << >>), value)),
                        !.user = h.user \cup {name}]
                ELSE Called(h)
        /\ UNCHANGED <<config, others>>

DoWithBoolFlag ==
    \E name \in BoolNames :
        /\ CanCall
        /\ b' = WithBoolFlag(b, name)
        /\ call' = <<"WithBoolFlag", name>>
        /\ args' = << >>
        /\ h' = [Called(h) EXCEPT !.bool = Append(h.bool, name),
                                  !.user = h.user \cup {name}]
        /\ UNCHANGED <<config, others>>

DoWithFormat ==
    \E format \in FormatValues :
        /\ CanCall
        /\ b' = WithFormat(b, format)
        /\ call' = <<"WithFormat", format>>
        /\ args' = << >>
        /\ h' = [Called(h) EXCEPT !.fmt = "WithFormat"]
        /\ UNCHANGED <<config, others>>

DoWithTextFormat ==
    /\ CanCall
    /\ b' = WithTextFormat(b)
    /\ call' = <<"WithTextFormat">>
    /\ args' = << >>
    /\ h' = [Called(h) EXCEPT !.fmt = "WithTextFormat"]
    /\ UNCHANGED <<config, others>>

\* bug: Build drains the bool flags it has emitted
DoBuild_Draining ==
    /\ CanCall
    /\ args' \in BuildSet(b)
    /\ call' = <<"Build">>
    /\ h' = Called(h)
    /\ b' = [b EXCEPT !.boolFlags = << >>]
    /\ UNCHANGED <<config, others>>

DoBuild ==
    /\ CanCall
    /\ args' \in BuildSet(b)
    /\ call' = <<"Build">>
    /\ h' = Called(h)
    /\ UNCHANGED <<config, b, others>>

DoExecute ==
    /\ CanCall
    /\ args' \in BuildSet(b)
    /\ call' = <<"Execute">>
    /\ h' = Called(h)
    /\ UNCHANGED <<config, b, others>>

DoExecuteWithRegion ==
    /\ CanCall
    /\ b' = RegionInjected(b)
    /\ args' \in BuildSet(b')
    /\ call' = <<"ExecuteWithRegion">>
    /\ h' = IF b.region # ""
            THEN [Called(h) EXCEPT !.flag = MapPut(h.flag, "region", b.region)]
            ELSE Called(h)
    /\ UNCHANGED <<config, others>>

DoExecuteWithZone ==
    /\ CanCall
    /\ b' = ZoneInjected(b)
    /\ args' \in BuildSet(b')
    /\ call' = <<"ExecuteWithZone">>
    /\ h' = IF b.zone # ""
            THEN [Called(h) EXCEPT !.flag = MapPut(h.flag, "zone", b.zone)]
            ELSE Called(h)
    /\ UNCHANGED <<config, others>>

Next ==
    \/ DoCommand
    \/ DoWithProject
    \/ DoWithRegion
    \/ DoWithZone
    \/ DoWithFlag
    \/ DoWithArrayFlag
    \/ DoWithBoolFlag
    \/ DoWithFormat
    \/ DoWithTextFormat
    \/ DoBuild
    \/ DoExecute
    \/ DoExecuteWithRegion
    \/ DoExecuteWithZone

Spec == Init /\ [][Next]_vars

-----------------------------------------------------------------------------
(* Vocabulary of the properties *)

\* the calls after which args holds an argument list
ListCalls == {"Build", "Execute", "ExecuteWithRegion", "ExecuteWithZone"}

\* every list Build() may return now, and the list the last call did return
Lists == BuildSet(b) \cup (IF call[1] \in ListCalls THEN {args} ELSE {})

\* number of tokens of list a that begin with prefix p
CountPrefix(a, p) == Cardinality({i \in DOMAIN a : HasPrefix(a[i], p)})

\* number of tokens of list a equal to token tok
CountToken(a, tok) == Cardinality({i \in DOMAIN a : a[i] = tok})

\* the caller itself passed a flag setter a name whose token begins --f=
UserFlagged(f) == \E n \in h.user : n = f \/ HasPrefix(n, f \o "=")

\* a setter call whose value argument is the empty string
EmptyValueCall(c) ==
    /\ c[1] \in {"WithFlag", "WithArrayFlag", "WithProject", "WithRegion", "WithZone"}
    /\ c[Len(c)] = ""

-----------------------------------------------------------------------------
(* C1: a call of WithFlag(name, ""), WithArrayFlag(name, ""),               *)
(* WithProject(""), WithRegion("") or WithZone("") leaves every field of   *)
(* the builder as it was, so Build() may return the same lists after it   *)
(* as before it.                                                           *)
C1_EmptyValueNoOp ==
    [][EmptyValueCall(call') => (b' = b /\ BuildSet(b') = BuildSet(b))]_vars

\* an empty WithFlag on a name that already holds a value, which it keeps
C1_Witness ==
    /\ call = <<"WithFlag", "region", "">>
    /\ "region" \in DOMAIN b.flags
    /\ b.flags["region"] = "a"

(* C2: the builder's project is the last non-empty argument passed to       *)
(* WithProject, or the Config's project if there was none, and Build()      *)
(* carries --project=<that value> whenever it is non-empty; the same rule   *)
(* holds for GetRegion and GetZone.                                         *)
C2_DefaultInheritance ==
    /\ GetProject(b) = LastNonEmpty(config.Project, h.project)
    /\ GetRegion(b) = LastNonEmpty(config.Region, h.region)
    /\ GetZone(b) = LastNonEmpty(config.Zone, h.zone)
    /\ LastNonEmpty(config.Project, h.project) # "" =>
           \A a \in Lists :
               CountToken(a, "--project=" \o LastNonEmpty(config.Project, h.project)) >= 1

\* the Config default was replaced by "b", and a later empty override kept "b"
C2_Witness ==
    /\ config.Project = "a"
    /\ h.project = "b"
    /\ call = <<"WithProject", "">>
    /\ b.project = "b"

(* C3: ExecuteWithRegion with a non-empty region, on a builder the caller   *)
(* gave no region flag, runs a list with exactly one token                  *)
(* --region=<region> (and no other --region= token); with an empty region   *)
(* it runs a list with no --region= token. The same for ExecuteWithZone.    *)
C3_RegionZoneInjection ==
    /\ (call = <<"ExecuteWithRegion">> /\ ~UserFlagged("region")) =>
           IF b.region # ""
           THEN /\ CountToken(args, "--region=" \o b.region) = 1
                /\ CountPrefix(args, "--region=") = 1
           ELSE CountPrefix(args, "--region=") = 0
    /\ (call = <<"ExecuteWithZone">> /\ ~UserFlagged("zone")) =>
           IF b.zone # ""
           THEN /\ CountToken(args, "--zone=" \o b.zone) = 1
                /\ CountPrefix(args, "--zone=") = 1
           ELSE CountPrefix(args, "--zone=") = 0

\* a second ExecuteWithRegion, after the region was overridden, runs the new one
C3_Witness ==
    /\ call = <<"ExecuteWithRegion">>
    /\ ~UserFlagged("region")
    /\ config.Region = "a"
    /\ b.region = "b"
    /\ h.n = 3
    /\ CountToken(args, "--region=b") = 1

RECURSIVE SumLen(_, _)
SumLen(m, keys) ==
    IF keys = {} THEN 0
    ELSE LET k == CHOOSE x \in keys : TRUE IN Len(m[k]) + SumLen(m, keys \ {k})

NumFlagTokens(bb) ==
    Cardinality(DOMAIN bb.flags) + SumLen(bb.arrayFlags, DOMAIN bb.arrayFlags)
        + Len(bb.boolFlags)

\* the tokens of list a that begin with prefix p, in their order
RECURSIVE WithPrefix(_, _)
WithPrefix(a, p) ==
    IF a = << >> THEN << >>
    ELSE (IF HasPrefix(Head(a), p) THEN <<Head(a)>> ELSE << >>) \o WithPrefix(Tail(a), p)

\* list a has (a) no --format= token after WithTextFormat as the last format call,
\* (b) exactly one, --format=json, when no format call was made
C5_Holds(a) ==
    /\ h.fmt = "WithTextFormat" => CountPrefix(a, "--format=") = 0
    /\ h.fmt = "none" =>
           (CountPrefix(a, "--format=") = 1 /\ CountToken(a, "--format=json") = 1)

(* C5 as stated: whatever names and values the other setters were given,    *)
(* (a) after WithTextFormat as the last format call no token of Build()     *)
(* begins with --format=, and (b) with no format call exactly one does,     *)
(* and it is --format=json.                                                 *)
C5_Original == call = <<"Build">> => C5_Holds(args)

(* C5 (amended): the same two statements for every sequence of the other    *)
(* setters in which the caller gave no flag setter the name format (nor a   *)
(* bool flag a name beginning format=).                                     *)
C5_FormatDuality == ~UserFlagged("format") => \A a \in Lists : C5_Holds(a)

\* Build after WithTextFormat on a builder holding another flag
C5_Witness ==
    /\ call = <<"Build">>
    /\ h.fmt = "WithTextFormat"
    /\ ~UserFlagged("format")
    /\ DOMAIN b.flags = {"region"}
    /\ CountPrefix(args, "--format=") = 0

\* the flag tokens of the builder, in one of the orders Build may emit them
FlagTokens(bb) ==
    FlagArgs(bb, CHOOSE o \in MapOrders(bb.flags) : TRUE)
        \o ArrayFlagArgs(bb, CHOOSE o \in MapOrders(bb.arrayFlags) : TRUE)
        \o BoolFlagArgs(bb)

\* parts of C6 that the statement and its amendment share: list a is the
\* components, nf tokens that are the flag tokens flagBag, the project token
\* if project is non-empty, and the format token if format is non-empty
C6_Layout(a, nf, flagBag) ==
    LET nc == Len(b.components)
        np == IF b.project # "" THEN 1 ELSE 0
        nt == IF b.format # "" THEN 1 ELSE 0
    IN  /\ Len(a) = nc + nf + np + nt
        /\ SubSeq(a, 1, nc) = b.components
        /\ BagOf(SubSeq(a, nc + 1, nc + nf)) = flagBag
        /\ b.project # "" => a[nc + nf + 1] = "--project=" \o b.project
        /\ b.format # "" => a[Len(a)] = "--format=" \o b.format

(* C6 as stated: Build() is the components, then the flag tokens, then the  *)
(* token --project=<project>, present exactly once iff project is           *)
(* non-empty, then --format=<format>, present iff format is non-empty, as   *)
(* the last element.                                                        *)
C6_Original ==
    call = <<"Build">> =>
        /\ C6_Layout(args, NumFlagTokens(b), BagOf(FlagTokens(b)))
        /\ CountToken(args, "--project=" \o b.project) = (IF b.project # "" THEN 1 ELSE 0)
        /\ (b.format # "") <=> (CountToken(args, "--format=" \o b.format) >= 1)

(* C6 (amended): Build() is the components, then the flag tokens, then      *)
(* --project=<project> if project is non-empty, then --format=<format> as   *)
(* last element if format is non-empty, and nothing else; the project       *)
(* token occurs exactly once, and only there, when the caller set no flag   *)
(* named project.                                                           *)
C6_BuildOrdering ==
    LET nf == NumFlagTokens(b)
        flagBag == BagOf(FlagTokens(b))
    IN  \A a \in Lists :
        /\ C6_Layout(a, nf, flagBag)
        /\ ~UserFlagged("project") =>
               CountPrefix(a, "--project=") = (IF b.project # "" THEN 1 ELSE 0)
        /\ ~UserFlagged("format") =>
               CountPrefix(a, "--format=") = (IF b.format # "" THEN 1 ELSE 0)

\* Build on a builder with components, a flag, a bool flag, a project and a format
C6_Witness ==
    /\ call = <<"Build">>
    /\ b.components = <<"run", "list">>
    /\ b.project = "a"
    /\ DOMAIN b.flags = {"zone"}
    /\ b.boolFlags = <<"quiet">>
    /\ args[Len(args) - 1] = "--project=a"
    /\ args[Len(args)] = "--format=json"

(* C7: Build() emits one --name=value token per WithArrayFlag(name, value)  *)
(* call with non-empty value, per name in call order, and one --name token  *)
(* per WithBoolFlag(name) call, in call order, duplicates included.         *)
C7_RepeatableFlags ==
    \A a \in Lists :
        LET base == Len(b.components) + Cardinality(DOMAIN b.flags)
            nArr == SumLen(h.array, DOMAIN h.array)
        IN  /\ Len(a) >= base + nArr + Len(h.bool)
            /\ \A name \in ArrayNames :
                   WithPrefix(SubSeq(a, base + 1, base + nArr), "--" \o name \o "=")
                       = [i \in 1..Len(MapGet(h.array, name, << >>)) |->
                              "--" \o name \o "=" \o h.array[name][i]]
            /\ SubSeq(a, base + nArr + 1, base + nArr + Len(h.bool))
                   = [i \in 1..Len(h.bool) |-> "--" \o h.bool[i]]

\* the same array flag given twice, with different values, and a bool flag
C7_Witness ==
    /\ "env" \in DOMAIN h.array
    /\ h.array["env"] = <<"b", "a">>
    /\ h.bool = <<"quiet">>
    /\ \E a \in BuildSet(b) : SubSeq(a, Len(b.components) + 1, Len(b.components) + 3)
                                  = <<"--env=b", "--env=a", "--quiet">>

(* C8: for each name, the flags part of Build() holds at most one           *)
(* --name=value token, and its value is that of the last WithFlag(name, v)  *)
(* call with non-empty v; a later WithFlag(name, "") does not change it.    *)
C8_SingleValueFlags ==
    \A a \in Lists :
        LET nc == Len(b.components)
            fs == SubSeq(a, nc + 1, nc + Cardinality(DOMAIN h.flag))
        IN  /\ Len(a) >= nc + Cardinality(DOMAIN h.flag)
            /\ \A name \in FlagNames :
                   IF name \in DOMAIN h.flag
                   THEN /\ CountPrefix(fs, "--" \o name \o "=") = 1
                        /\ CountToken(fs, "--" \o name \o "=" \o h.flag[name]) = 1
                   ELSE CountPrefix(fs, "--" \o name \o "=") = 0

\* a value was set, and an empty WithFlag on the same name came last
C8_Witness ==
    /\ call = <<"WithFlag", "format", "">>
    /\ h.n = 3
    /\ "format" \in DOMAIN h.flag
    /\ h.flag["format"] = "b"
    /\ \A a \in BuildSet(b) : CountToken(a, "--format=b") = 1

(* C9: a Build() call leaves the builder as it was, and every list Build()  *)
(* may return for that builder state has the same multiset of tokens as     *)
(* the one it returned.                                                     *)
C9_BuildPure ==
    [][call' = <<"Build">> =>
           (b' = b /\ \A a \in BuildSet(b) : BagOf(a) = BagOf(args'))]_vars

\* Build on a builder for which the map order allows several lists
C9_Witness ==
    /\ call = <<"Build">>
    /\ DOMAIN b.flags = {"region", "zone"}
    /\ Cardinality(BuildSet(b)) = 2
    /\ args \in BuildSet(b)

\* applying setter call c to the current builder twice gives the builder that
\* applying it once gives (and so the same Build() lists)
SameTwice(c) == Apply(Apply(b, c), c) = Apply(b, c)

\* the setter calls that append: WithBoolFlag, and WithArrayFlag with a value
Appends(c) == c[1] = "WithBoolFlag" \/ (c[1] = "WithArrayFlag" /\ c[3] # "")

(* C10 as stated: a setter call that repeats the call made just before it,  *)
(* with the same arguments, leaves the builder, and Build(), as they were.  *)
C10_Original ==
    [][(call' = call /\ call' \in MutatorCalls)
           => (b' = b /\ BuildSet(b') = BuildSet(b))]_vars

(* C10 (amended): that holds of every setter call except WithBoolFlag and   *)
(* WithArrayFlag with a non-empty value, which add one more entry, and one  *)
(* more Build() token, each time they are applied.                          *)
C10_Idempotent ==
    \A c \in MutatorCalls :
        IF Appends(c)
        THEN /\ ~SameTwice(c)
             /\ NumFlagTokens(Apply(Apply(b, c), c)) = NumFlagTokens(Apply(b, c)) + 1
        ELSE SameTwice(c)

\* the state after WithFlag("region", "a"), which a second such call leaves as it is
C10_Witness ==
    /\ call = <<"WithFlag", "region", "a">>
    /\ b.flags["region"] = "a"
    /\ Apply(b, call) = b

-----------------------------------------------------------------------------
(* C11: in every state of the builder, the one right after                  *)
(* Executor.Command(components...) included, the components sequence is     *)
(* not empty.  Command takes a variadic parameter and stores it unchecked,  *)
(* so Command() with no argument yields a builder without components.       *)
C11_Original == Len(b.components) > 0

-----------------------------------------------------------------------------
(* The terminal calls followed through the process they run: Execute        *)
(* builds the list, derives the bounded context, calls cmd.Run() and        *)
(* returns what it reported.  The caller's context, the clock and the       *)
(* process are the environment.                                             *)

\* clock ticks a behaviour covers
MaxTime == 3

\* terminal calls a behaviour makes
MaxExecs == 2

\* setter and Build calls made on a builder before it is executed
MaxSetup == 1

\* Config.CommandTimeout, in clock ticks
TimeoutValues == {0, 1, 2}

\* the Config of an Executor whose commands are run
ExecConfigs ==
    { [ Project |-> "a", Region |-> "a", Zone |-> "",
        GCloudPath |-> "gcloud", CommandTimeout |-> t ] : t \in TimeoutValues }

\* the contexts a caller may pass at time now
CallerContexts(now) ==
    { [deadlines |-> ds, canceled |-> c] :
        ds \in {{}, {now + 1}}, c \in BOOLEAN }

\* how a process may end by itself: exit status, standard output, standard error
ProcOutcomes ==
    { <<0, "", "">>,
      <<0, " \n", "">>,
      <<0, " [1,2]\n", "WARNING: beta">>,
      <<2, "", "ERROR: permission denied">>,
      <<2, "partial", "">> }

\* what a process may have written when it is killed
KilledOutputs == { <<"", "">>, <<"partial", "ERROR: slow">> }

\* the sub-command the builders are made for
ExecComponents == <<"run", "list">>

\* the setters called on a builder that is then executed
SetupCalls == {<<"WithFormat", "yaml">>, <<"WithTextFormat">>}

\* no terminal call is in flight
ExecIdle == ex.pc \in {"idle", "returned"}

\* bug: the bounded context is derived from context.Background()
ExecCtx_Detached == WithTimeout(Background, ex.entry, config.CommandTimeout)

\* the context the process runs under
ExecCtx == WithTimeout(ex.caller, ex.entry, config.CommandTimeout)

InitExec ==
    /\ config \in ExecConfigs
    /\ b = Command(config, ExecComponents)
    /\ call = <<"Command">>
    /\ args = << >>
    /\ h = NoHistory
    /\ ex = NoExec
    /\ res = NoReturn
    /\ out = NoOut
    /\ bs = << >>

\* a terminal call has returned
Returned == ex.pc = "returned"

\* the caller takes a new builder once a call has returned; ex and res
\* describe the call made on the current builder, so they start afresh
ExecCommand ==
    /\ Returned
    /\ b' = Command(config, ExecComponents)
    /\ call' = <<"Command">>
    /\ args' = << >>
    /\ h' = NoHistory
    /\ ex' = [NoExec EXCEPT !.n = ex.n, !.now = ex.now,
                            !.failed = ex.failed \/ ex.runErr # NoError]
    /\ res' = NoReturn
    /\ UNCHANGED <<config, out, bs>>

ExecSetter ==
    \E c \in SetupCalls :
        /\ ex.pc = "idle"
        /\ h.n < MaxSetup
        /\ b' = Apply(b, c)
        /\ call' = c
        /\ args' = << >>
        /\ h' = Called(h)
        /\ UNCHANGED <<config, others>>

ExecBuild == ex.pc = "idle" /\ h.n < MaxSetup /\ DoBuild

\* entry of a terminal call on builder bb with the caller's context: the
\* list is built and the call is about to run it
Enter(kind, bb, caller) ==
    /\ ExecIdle
    /\ ex.n < MaxExecs
    /\ ex.now + config.CommandTimeout <= MaxTime
    /\ b' = bb
    /\ args' \in BuildSet(bb)
    /\ call' = <<kind>>
    /\ ex' = [NoExec EXCEPT !.pc = "built", !.n = ex.n + 1, !.now = ex.now,
                            !.entry = ex.now, !.caller = caller,
                            !.failed = ex.failed \/ ex.runErr # NoError]
    /\ res' = NoReturn
    /\ UNCHANGED <<config, h, out, bs>>

EnterExecute ==
    \E caller \in CallerContexts(ex.now) : Enter("Execute", b, caller)

EnterExecuteWithRegion ==
    \E caller \in CallerContexts(ex.now) :
        Enter("ExecuteWithRegion", RegionInjected(b), caller)

EnterExecuteWithZone ==
    \E caller \in CallerContexts(ex.now) :
        Enter("ExecuteWithZone", ZoneInjected(b), caller)

\* cmd.Run() on a context that is already done: no process is started
RunRefused ==
    /\ ex.pc = "built"
    /\ Done(ExecCtx, ex.now)
    /\ ex' = [ex EXCEPT !.pc = "waited", !.runs = @ + 1,
                        !.runErr = OtherError(CtxErr(ExecCtx))]
    /\ UNCHANGED <<config, b, call, args, h, res, out, bs>>

\* cmd.Run() cannot start the executable at Config.GCloudPath
RunSpawnFails ==
    /\ ex.pc = "built"
    /\ ex' = [ex EXCEPT !.pc = "waited", !.runs = @ + 1,
                        !.runErr = OtherError("exec: \"" \o config.GCloudPath
                                       \o "\": executable file not found in $PATH")]
    /\ UNCHANGED <<config, b, call, args, h, res, out, bs>>

\* cmd.Run() starts the process and waits for it
RunSpawns ==
    /\ ex.pc = "built"
    /\ ~Done(ExecCtx, ex.now)
    /\ ex' = [ex EXCEPT !.pc = "running", !.runs = @ + 1, !.procs = @ + 1,
                        !.proc = "running"]
    /\ UNCHANGED <<config, b, call, args, h, res, out, bs>>

\* time passes while the call is in flight
Tick ==
    /\ ex.pc = "running"
    /\ ex.now < MaxTime
    /\ ex' = [ex EXCEPT !.now = @ + 1]
    /\ UNCHANGED <<config, b, call, args, h, res, out, bs>>

\* the caller cancels the context it passed
CallerCancel ==
    /\ ex.pc \in {"built", "running"}
    /\ ~ex.caller.canceled
    /\ ex' = [ex EXCEPT !.caller.canceled = TRUE]
    /\ UNCHANGED <<config, b, call, args, h, res, out, bs>>

\* the process exits by itself
ProcExit ==
    \E o \in ProcOutcomes :
        /\ ex.pc = "running"
        /\ ex' = [ex EXCEPT !.pc = "waited", !.proc = "exited",
                            !.runErr = IF o[1] = 0 THEN NoError ELSE ExitError(o[1]),
                            !.stdout = o[2], !.stderr = o[3]]
        /\ UNCHANGED <<config, b, call, args, h, res, out, bs>>

\* bug: the process runs under the caller's context, without the timeout
CtxKill_Unbound ==
    \E o \in KilledOutputs :
        /\ ex.pc = "running"
        /\ Done(ex.caller, ex.now)
        /\ ex' = [ex EXCEPT !.pc = "waited", !.proc = "signaled",
                            !.runErr = ExitError(-1),
                            !.stdout = o[1], !.stderr = o[2]]
        /\ UNCHANGED <<config, b, call, args, h, res, out, bs>>

\* exec.CommandContext kills the running process once the context is done
CtxKill ==
    \E o \in KilledOutputs :
        /\ ex.pc = "running"
        /\ Done(ExecCtx, ex.now)
        /\ ex' = [ex EXCEPT !.pc = "waited", !.proc = "signaled",
                            !.runErr = ExitError(-1),
                            !.stdout = o[1], !.stderr = o[2]]
        /\ UNCHANGED <<config, b, call, args, h, res, out, bs>>

\* bug: a failed run is tried once more
ExecReturn_Retrying ==
    /\ ex.pc = "waited"
    /\ IF ex.runErr # NoError /\ ex.runs < 2
       THEN /\ ex' = [ex EXCEPT !.pc = "built"]
            /\ UNCHANGED res
       ELSE /\ ex' = [ex EXCEPT !.pc = "returned"]
            /\ res' = ExecuteReturn(b.format, ex.runErr, ex.stdout, ex.stderr)
    /\ UNCHANGED <<config, b, call, args, h, out, bs>>

\* bug: a failure resets the default project of the Executor's Config
ExecReturn_ClearsDefaults ==
    /\ ex.pc = "waited"
    /\ ex' = [ex EXCEPT !.pc = "returned"]
    /\ res' = ExecuteReturn(b.format, ex.runErr, ex.stdout, ex.stderr)
    /\ config' = IF ex.runErr # NoError THEN [config EXCEPT !.Project = ""] ELSE config
    /\ UNCHANGED <<b, call, args, h, out, bs>>

\* cmd.Run() has returned: Execute fills the Result and returns
ExecReturn ==
    /\ ex.pc = "waited"
    /\ ex' = [ex EXCEPT !.pc = "returned"]
    /\ res' = ExecuteReturn(b.format, ex.runErr, ex.stdout, ex.stderr)
    /\ UNCHANGED <<config, b, call, args, h, out, bs>>

NextExec ==
    \/ ExecCommand
    \/ ExecSetter
    \/ ExecBuild
    \/ EnterExecute
    \/ EnterExecuteWithRegion
    \/ EnterExecuteWithZone
    \/ RunRefused
    \/ RunSpawnFails
    \/ RunSpawns
    \/ Tick
    \/ CallerCancel
    \/ ProcExit
    \/ CtxKill
    \/ ExecReturn

SpecExec == InitExec /\ [][NextExec]_vars

\* the clock advances, a done context kills the process, and cmd.Run() and
\* Execute return once they can
SpecExecFair ==
    /\ SpecExec
    /\ WF_vars(Tick)
    /\ WF_vars(RunRefused \/ RunSpawnFails \/ RunSpawns)
    /\ WF_vars(CtxKill)
    /\ WF_vars(ExecReturn)

\* the returned Result
Result == res.result[1]

\* the least element of a non-empty set of times
Least(S) == CHOOSE m \in S : \A x \in S : m <= x

\* t is s without its leading and trailing white space
IsTrimOf(t, s) ==
    /\ \E i \in 0..Len(s) :
           /\ SubSeq(s, i + 1, i + Len(t)) = t
           /\ \A k \in 1..Len(s) :
                  (k <= i \/ k > i + Len(t)) => IsSpace(SubSeq(s, k, k))
    /\ Len(t) > 0 => ~IsSpace(SubSeq(t, 1, 1)) /\ ~IsSpace(SubSeq(t, Len(t), Len(t)))

\* a terminal call has returned an error
Failed == Returned /\ ex.runErr # NoError

\* what a failed call returns, but for the exit code
C12_Common ==
    /\ res.result # Nil
    /\ res.err # Nil
    /\ Result.Stdout = ex.stdout
    /\ Result.Stderr = ex.stderr
    /\ Contains(res.err[1], ex.stderr)

-----------------------------------------------------------------------------
(* C12 as stated: a failed Execute returns a non-nil Result and a non-nil   *)
(* error, the Result holds the captured output, its ExitCode is the exit    *)
(* code of the process when there is one and 0 otherwise, and the error     *)
(* text contains the captured standard error.                               *)
C12_Original ==
    Failed =>
        /\ C12_Common
        /\ Result.ExitCode = (IF ex.proc = "exited" THEN ex.runErr.code ELSE 0)

(* C12: a failed Execute returns a non-nil Result and a non-nil error, the  *)
(* Result holds the captured output, and the error text contains the       *)
(* captured standard error; ExitCode is the exit status of a process that   *)
(* exited by itself, -1 for a process ended by a signal (as when the        *)
(* context kills it), and 0 when no process ran.                            *)
C12_FailedExecution ==
    Failed =>
        /\ C12_Common
        /\ ex.proc = "exited" => Result.ExitCode = ex.runErr.code /\ Result.ExitCode > 0
        /\ ex.proc = "signaled" => Result.ExitCode = -1
        /\ ex.proc = "none" => Result.ExitCode = 0

\* the process exited with status 2 and an error message
C12_Witness ==
    /\ Failed
    /\ ex.proc = "exited"
    /\ Result.ExitCode = 2
    /\ Result.Stderr = "ERROR: permission denied"
    /\ res.err = Some("gcloud command failed: exit status 2\nstderr: ERROR: permission denied")

(* C13: a successful Execute returns a nil error; the Result has a JSON     *)
(* payload exactly when the builder's format is "json" and the standard     *)
(* output is not empty once trimmed; the payload is the trimmed output,     *)
(* unvalidated, and Stdout is the output untrimmed.                         *)
C13_SuccessfulExecution ==
    (Returned /\ ex.runErr = NoError) =>
        /\ ex.proc = "exited"
        /\ res.err = Nil
        /\ res.result # Nil
        /\ Result.Stdout = ex.stdout
        /\ Result.ExitCode = 0
        /\ (Result.JSON # Nil) <=>
               (b.format = "json" /\ \E k \in 1..Len(ex.stdout) : ~IsSpace(SubSeq(ex.stdout, k, k)))
        /\ Result.JSON # Nil => IsTrimOf(Result.JSON[1], ex.stdout)

\* output wrapped in white space: the payload is trimmed, Stdout is not
C13_Witness ==
    /\ Returned
    /\ ex.runErr = NoError
    /\ Result.JSON = Some("[1,2]")
    /\ Result.Stdout = " [1,2]\n"

(* C14: the process runs under a deadline that is the earlier of the        *)
(* caller's deadline, if it has one, and the time Execute was entered plus  *)
(* Config.CommandTimeout: short of a cancellation, the process can be       *)
(* killed exactly from that time on.                                        *)
C14_TimeoutBound ==
    (ex.pc = "running" /\ ~ex.caller.canceled) =>
        ((ENABLED CtxKill) <=>
            ex.now >= Least({ex.entry + config.CommandTimeout} \cup ex.caller.deadlines))

\* a caller's deadline earlier than the timeout has been reached
C14_Witness ==
    /\ ex.pc = "running"
    /\ ~ex.caller.canceled
    /\ ex.caller.deadlines = {ex.entry + 1}
    /\ config.CommandTimeout = 2
    /\ ex.now = ex.entry + 1

C16_NoRetries ==
    /\ ex.runs <= 1
    /\ ex.procs <= ex.runs
    /\ ex.pc \in {"running", "waited", "returned"} => ex.runs = 1
    /\ Returned => /\ (res.err = Nil) <=> (ex.runErr = NoError)
                   /\ Result.Stdout = ex.stdout
                   /\ Result.Stderr = ex.stderr

\* a failure of ExecuteWithRegion returned after one run
C16_Witness ==
    /\ Failed
    /\ call = <<"ExecuteWithRegion">>
    /\ ex.proc = "exited"
    /\ ex.runs = 1

\* the list built from a builder no setter was called on
InitialArgs(cfg, components) ==
    components \o (IF cfg.Project # "" THEN <<"--project=" \o cfg.Project>> ELSE << >>)
               \o <<"--format=json">>

(* C17: no step changes the Config, and a builder taken from the Executor   *)
(* after a failed call starts from the Config's defaults and builds the     *)
(* list a builder taken before the failure would.                           *)
C17_FailureIsolation ==
    [][ /\ config' = config
        /\ (call' = <<"Command">> /\ ex'.failed) =>
               /\ b'.flags = EmptyMap /\ b'.arrayFlags = EmptyMap /\ b'.boolFlags = << >>
               /\ b'.project = config.Project /\ b'.region = config.Region
               /\ b'.zone = config.Zone /\ b'.format = "json"
               /\ BuildSet(b') = {InitialArgs(config, b'.components)} ]_vars

\* a fresh builder after a failed call
C17_Witness ==
    /\ call = <<"Command">>
    /\ ex.failed
    /\ b.project = "a"
    /\ config.Project = "a"

-----------------------------------------------------------------------------
(* Call paths that share one Executor (a BaseService holds it): each takes  *)
(* its own builder with Command() and calls it to the end, interleaved      *)
(* with the others.                                                         *)

\* calls one call path makes on its builder, the terminal call included
MaxConcCalls == 2

\* the call paths
Callers == {"handler1", "handler2"}

\* the setter calls a call path may make
ConcCalls ==
    { <<"WithProject", "b">>, <<"WithFlag", "region", "b">>, <<"WithBoolFlag", "quiet">> }

\* the terminal calls
TerminalCalls == { <<"Execute">>, <<"ExecuteWithRegion">> }

\* a call path that holds no builder yet
NoBuilder == [pc |-> "none", components |-> << >>, b |-> Nil, calls |-> << >>, args |-> << >>]

\* the builder after call c, setter or terminal
ApplyCall(bb, c) ==
    CASE c = <<"Execute">>           -> bb
      [] c = <<"ExecuteWithRegion">> -> RegionInjected(bb)
      [] c = <<"ExecuteWithZone">>   -> ZoneInjected(bb)
      [] OTHER                      -> Apply(bb, c)

InitConc ==
    /\ config \in Configs
    /\ bs = [i \in Callers |-> NoBuilder]
    /\ b = Command(config, ExecComponents)
    /\ call = <<"New">>
    /\ args = << >>
    /\ h = NoHistory
    /\ ex = NoExec
    /\ res = NoReturn
    /\ out = NoOut

\* call path i takes a builder from the shared Executor
ConcCommand ==
    \E i \in Callers, components \in ComponentLists :
        /\ bs[i].pc = "none"
        /\ bs' = [bs EXCEPT ![i] = [ pc |-> "open", components |-> components,
                                     b |-> Some(Command(config, components)),
                                     calls |-> << >>, args |-> << >> ]]
        /\ call' = <<i, "Command">>
        /\ UNCHANGED <<config, b, args, h, ex, res, out>>

\* bug: the builders share the flag collections of the Executor
ConcSetter_Shared ==
    \E i \in Callers, c \in ConcCalls :
        /\ bs[i].pc = "open"
        /\ Len(bs[i].calls) + 1 < MaxConcCalls
        /\ bs' = [j \in Callers |->
                    IF j = i
                    THEN [bs[j] EXCEPT !.b = Some(Apply(@[1], c)), !.calls = Append(@, c)]
                    ELSE IF bs[j].pc = "open" /\ c[1] \in {"WithFlag", "WithBoolFlag"}
                    THEN [bs[j] EXCEPT !.b = Some(Apply(@[1], c))]
                    ELSE bs[j]]
        /\ call' = <<i>> \o c
        /\ UNCHANGED <<config, b, args, h, ex, res, out>>

\* call path i calls a setter on its builder
ConcSetter ==
    \E i \in Callers, c \in ConcCalls :
        /\ bs[i].pc = "open"
        /\ Len(bs[i].calls) + 1 < MaxConcCalls
        /\ bs' = [bs EXCEPT ![i].b = Some(Apply(@[1], c)), ![i].calls = Append(@, c)]
        /\ call' = <<i>> \o c
        /\ UNCHANGED <<config, b, args, h, ex, res, out>>

\* call path i makes its terminal call: the list its process is started with
ConcExecute ==
    \E i \in Callers, c \in TerminalCalls :
        /\ bs[i].pc = "open"
        /\ \E a \in BuildSet(ApplyCall(bs[i].b[1], c)) :
               bs' = [bs EXCEPT ![i].pc = "executed",
                                ![i].b = Some(ApplyCall(@[1], c)),
                                ![i].calls = Append(@, c),
                                ![i].args = a]
        /\ call' = <<i>> \o c
        /\ UNCHANGED <<config, b, args, h, ex, res, out>>

NextConc ==
    \/ ConcCommand
    \/ ConcSetter
    \/ ConcExecute

SpecConc == InitConc /\ [][NextConc]_vars

\* the builder obtained from Command(components) by the calls, in order
RECURSIVE Replay(_, _)
Replay(bb, calls) ==
    IF calls = << >> THEN bb ELSE Replay(ApplyCall(bb, Head(calls)), Tail(calls))

(* C18: the state of each builder taken from the shared Executor, and the   *)
(* list its terminal call runs, are those that the Config and the calls     *)
(* made on that builder alone produce; a step of one call path leaves the   *)
(* builder of every other call path as it was.                              *)
C18_BuilderIsolation ==
    /\ [](\A i \in Callers :
             bs[i].pc # "none" =>
                 /\ bs[i].b = Some(Replay(Command(config, bs[i].components), bs[i].calls))
                 /\ bs[i].pc = "executed" =>
                        bs[i].args \in
                            BuildSet(Replay(Command(config, bs[i].components), bs[i].calls)))
    /\ [][\A i \in Callers : call'[1] # i => bs'[i] = bs[i]]_vars

\* both call paths have executed builders that differ in what they were given
C18_Witness ==
    /\ bs["handler1"].pc = "executed"
    /\ bs["handler2"].pc = "executed"
    /\ bs["handler1"].calls = << <<"WithFlag", "region", "b">>, <<"Execute">> >>
    /\ bs["handler2"].calls = << <<"WithBoolFlag", "quiet">>, <<"ExecuteWithRegion">> >>
    /\ bs["handler1"].args # bs["handler2"].args

-----------------------------------------------------------------------------
(* The accessors of a Result, and the encoding/json functions they call,    *)
(* computed character by character on the payload                           *)

\* character i of s, or "" outside s
Ch(s, i) == IF i >= 1 /\ i <= Len(s) THEN SubSeq(s, i, i) ELSE ""

Digits == {"0", "1", "2", "3", "4", "5", "6", "7", "8", "9"}

\* the index of the first character at or after i that is no white space
RECURSIVE SkipSpace(_, _)
SkipSpace(s, i) == IF IsSpace(Ch(s, i)) THEN SkipSpace(s, i + 1) ELSE i

RECURSIVE ScanDigits(_, _)
ScanDigits(s, i) == IF Ch(s, i) \in Digits THEN ScanDigits(s, i + 1) ELSE i

\* i is past the opening quote: the index past the closing quote, 0 if none
RECURSIVE ScanString(_, _)
ScanString(s, i) ==
    IF i > Len(s) THEN 0 ELSE IF Ch(s, i) = "\"" THEN i + 1 ELSE ScanString(s, i + 1)

\* the scanner of encoding/json on numbers, strings, arrays and objects:
\* the index past the value that begins at i, 0 on a syntax error
RECURSIVE ScanValue(_, _)
RECURSIVE ScanElements(_, _)
RECURSIVE ScanMembers(_, _)
ScanValue(s, i) ==
    CASE Ch(s, i) \in Digits -> ScanDigits(s, i)
      [] Ch(s, i) = "\""     -> ScanString(s, i + 1)
      [] Ch(s, i) = "["      -> IF Ch(s, SkipSpace(s, i + 1)) = "]"
                                THEN SkipSpace(s, i + 1) + 1
                                ELSE ScanElements(s, SkipSpace(s, i + 1))
      [] Ch(s, i) = "{"      -> IF Ch(s, SkipSpace(s, i + 1)) = "}"
                                THEN SkipSpace(s, i + 1) + 1
                                ELSE ScanMembers(s, SkipSpace(s, i + 1))
      [] OTHER               -> 0

ScanElements(s, i) ==
    LET j == ScanValue(s, i)
        k == SkipSpace(s, j)
    IN  IF j = 0 THEN 0
        ELSE CASE Ch(s, k) = "," -> ScanElements(s, SkipSpace(s, k + 1))
               [] Ch(s, k) = "]" -> k + 1
               [] OTHER          -> 0

ScanMembers(s, i) ==
    LET j == IF Ch(s, i) = "\"" THEN ScanString(s, i + 1) ELSE 0
        k == SkipSpace(s, j)
        v == IF j # 0 /\ Ch(s, k) = ":" THEN ScanValue(s, SkipSpace(s, k + 1)) ELSE 0
        e == SkipSpace(s, v)
    IN  IF v = 0 THEN 0
        ELSE CASE Ch(s, e) = "," -> ScanMembers(s, SkipSpace(s, e + 1))
               [] Ch(s, e) = "}" -> e + 1
               [] OTHER          -> 0

\* json.Valid: one value, white space around it allowed
Valid(s) ==
    LET j == ScanValue(s, SkipSpace(s, 1))
    IN  j # 0 /\ SkipSpace(s, j) = Len(s) + 1

\* the line break json.Indent writes at nesting depth d, indent "  "
RECURSIVE Newline(_)
Newline(d) == IF d <= 0 THEN "\n" ELSE Newline(d - 1) \o "  "

\* the loop of json.Indent over a valid text, from character i on
RECURSIVE Indented(_, _, _, _, _)
Indented(s, i, depth, needIndent, inString) ==
    IF i > Len(s) THEN ""
    ELSE IF inString
    THEN Ch(s, i) \o Indented(s, i + 1, depth, FALSE, Ch(s, i) # "\"")
    ELSE IF IsSpace(Ch(s, i))
    THEN Indented(s, i + 1, depth, needIndent, FALSE)
    ELSE LET c == Ch(s, i)
             opens == needIndent /\ c \notin {"}", "]"}
             d == IF opens THEN depth + 1 ELSE depth
         IN  (IF opens THEN Newline(d) ELSE "") \o
             ( CASE c \in {"{", "["} -> c \o Indented(s, i + 1, d, TRUE, FALSE)
                 [] c = ","          -> c \o Newline(d) \o Indented(s, i + 1, d, FALSE, FALSE)
                 [] c = ":"          -> ": " \o Indented(s, i + 1, d, FALSE, FALSE)
                 [] c \in {"}", "]"} -> IF needIndent
                                        THEN c \o Indented(s, i + 1, d, FALSE, FALSE)
                                        ELSE Newline(d - 1) \o c
                                                 \o Indented(s, i + 1, d - 1, FALSE, FALSE)
                 [] c = "\""         -> c \o Indented(s, i + 1, d, FALSE, TRUE)
                 [] OTHER            -> c \o Indented(s, i + 1, d, FALSE, FALSE) )

\* json.Indent(&dst, src, "", "  "): the indented text, or Nil for an error
Indent(s) == IF Valid(s) THEN Some(Indented(s, 1, 0, FALSE, FALSE)) ELSE Nil

\* the text without the white space between its tokens
RECURSIVE Compact(_, _, _)
Compact(s, i, inString) ==
    IF i > Len(s) THEN ""
    ELSE IF inString THEN Ch(s, i) \o Compact(s, i + 1, Ch(s, i) # "\"")
    ELSE IF IsSpace(Ch(s, i)) THEN Compact(s, i + 1, FALSE)
    ELSE Ch(s, i) \o Compact(s, i + 1, Ch(s, i) = "\"")

\* the kind of value a valid text holds
KindOf(s) ==
    CASE Ch(s, SkipSpace(s, 1)) = "[" -> "array"
      [] Ch(s, SkipSpace(s, 1)) = "{" -> "object"
      [] Ch(s, SkipSpace(s, 1)) = "\"" -> "string"
      [] OTHER                       -> "number"

\* the Go types a caller decodes into
TargetTypes == {"any", "int", "[]any", "map[string]any"}

\* json.Unmarshal can store a value of this kind in a target of this type
Assignable(kind, type) ==
    \/ type = "any"
    \/ type = "int" /\ kind = "number"
    \/ type = "[]any" /\ kind = "array"
    \/ type = "map[string]any" /\ kind = "object"

\* json.Unmarshal(data, target) for a target of the type that holds old
Unmarshal(data, type, old) ==
    IF ~Valid(data)
    THEN [err |-> Some("invalid character or unexpected end of JSON input"), target |-> old]
    ELSE IF ~Assignable(KindOf(data), type)
    THEN [ err    |-> Some("json: cannot unmarshal " \o KindOf(data)
                               \o " into Go value of type " \o type),
           target |-> old ]
    ELSE [err |-> Nil, target |-> <<KindOf(data), Compact(data, 1, FALSE)>>]

\* bug: the payload is decoded without the nil check
ParseJSON_Unchecked(r, type, old) ==
    Unmarshal(IF r.JSON = Nil THEN "" ELSE r.JSON[1], type, old)

ParseJSON(r, type, old) ==
    IF r.JSON = Nil
    THEN [err |-> Some("no JSON output available"), target |-> old]
    ELSE Unmarshal(r.JSON[1], type, old)

\* bug: a payload that cannot be indented gives way to Stdout
ToJSONString_StdoutOnError(r) ==
    IF r.JSON # Nil /\ Indent(r.JSON[1]) # Nil THEN Indent(r.JSON[1])[1] ELSE r.Stdout

ToJSONString(r) ==
    IF r.JSON # Nil
    THEN IF Indent(r.JSON[1]) # Nil THEN Indent(r.JSON[1])[1] ELSE r.JSON[1]
    ELSE r.Stdout

\* bug: output that is only white space counts as no output
IsEmpty_Trimmed(r) == r.JSON = Nil /\ TrimSpace(r.Stdout) = ""

IsEmpty(r) == r.JSON = Nil /\ r.Stdout = ""

\* the payloads of the Results examined; "" is json.RawMessage("")
Payloads == {"[1, 2]", "{\"a\":[]}", "7", "{invalid json", "[1,", ""}

\* the Stdout of the Results examined
ResultStdouts == {"", " \n", "plain text output", "7"}

\* the Results: those Execute returns and those built as literals
Results ==
    { [JSON |-> j, Stdout |-> s, Stderr |-> "", ExitCode |-> 0] :
        j \in {Nil} \cup {Some(p) : p \in Payloads}, s \in ResultStdouts }

\* what a target holds before the call: its zero value, or an earlier value
Targets == { <<"zero", "">>, <<"number", "5">> }

InitResult ==
    /\ config \in Configs
    /\ b = Command(config, ExecComponents)
    /\ call = <<"Result">>
    /\ args = << >>
    /\ h = NoHistory
    /\ ex = NoExec
    /\ \E r \in Results : res = [result |-> Some(r), err |-> Nil]
    /\ out = NoOut
    /\ bs = << >>

DoParseJSON ==
    \E type \in TargetTypes, old \in Targets :
        /\ out' = <<"ParseJSON", type, old, ParseJSON(Result, type, old)>>
        /\ call' = <<"ParseJSON", type>>
        /\ UNCHANGED <<config, b, args, h, ex, res, bs>>

DoToJSONString ==
    /\ out' = <<"ToJSONString", ToJSONString(Result)>>
    /\ call' = <<"ToJSONString">>
    /\ UNCHANGED <<config, b, args, h, ex, res, bs>>

DoIsEmpty ==
    /\ out' = <<"IsEmpty", IsEmpty(Result)>>
    /\ call' = <<"IsEmpty">>
    /\ UNCHANGED <<config, b, args, h, ex, res, bs>>

-----------------------------------------------------------------------------
(* FormatError: json.MarshalIndent of an ErrorResponse, and its decoding.   *)
(* In the texts, "~" stands for a byte that is not valid UTF-8 and "?" for  *)
(* the replacement character U+FFFD.                                        *)

\* how encoding/json writes one character of a string
EscapeChar(c) ==
    CASE c = "\"" -> "\\\""
      [] c = "\\" -> "\\\\"
      [] c = "\n" -> "\\n"
      [] c = "<"  -> "\\u003c"
      [] c = "~"  -> "\\ufffd"
      [] OTHER    -> c

RECURSIVE Escaped(_, _)
Escaped(s, i) == IF i > Len(s) THEN "" ELSE EscapeChar(Ch(s, i)) \o Escaped(s, i + 1)

\* a Go string as a JSON string
Quote(s) == "\"" \o Escaped(s, 1) \o "\""

\* one member of the indented object
Member(key, value) == "\n  \"" \o key \o "\": " \o Quote(value)

\* bug: the empty fields are written too
FormatError_NoOmit(e, command, stderr) ==
    "{" \o Member("error", e) \o "," \o Member("command", command)
        \o "," \o Member("stderr", stderr) \o "\n}"

\* json.MarshalIndent(ErrorResponse{e, command, stderr}, "", "  ")
FormatError(e, command, stderr) ==
    "{" \o Member("error", e)
        \o (IF command # "" THEN "," \o Member("command", command) ELSE "")
        \o (IF stderr # "" THEN "," \o Member("stderr", stderr) ELSE "")
        \o "\n}"

\* the character an escape sequence beginning at i (past the backslash) denotes
Unescape(s, i) ==
    CASE Ch(s, i) = "n" -> "\n"
      [] Ch(s, i) = "u" /\ SubSeq(s, i + 1, i + 4) = "003c" -> "<"
      [] Ch(s, i) = "u" /\ SubSeq(s, i + 1, i + 4) = "fffd" -> "?"
      [] OTHER -> Ch(s, i)

\* i is past the opening quote: the string decoded, and the index past the
\* closing quote
RECURSIVE Unquote(_, _)
Unquote(s, i) ==
    IF i > Len(s) \/ Ch(s, i) = "\"" THEN <<"", i + 1>>
    ELSE IF Ch(s, i) = "\\"
    THEN LET n == IF Ch(s, i + 1) = "u" THEN i + 6 ELSE i + 2
             rest == Unquote(s, n)
         IN  <<Unescape(s, i + 1) \o rest[1], rest[2]>>
    ELSE LET rest == Unquote(s, i + 1)
         IN  <<Ch(s, i) \o rest[1], rest[2]>>

\* the members of an object of strings, from the key that begins at i on
RECURSIVE Members(_, _)
Members(s, i) ==
    IF Ch(s, i) # "\"" THEN EmptyMap
    ELSE LET key == Unquote(s, i + 1)
             val == Unquote(s, SkipSpace(s, SkipSpace(s, key[2]) + 1) + 1)
             nxt == SkipSpace(s, val[2])
         IN  MapPut(IF Ch(s, nxt) = "," THEN Members(s, SkipSpace(s, nxt + 1)) ELSE EmptyMap,
                    key[1], val[1])

\* the object an indented text holds, as a map from key to value
Decoded(s) == Members(s, SkipSpace(s, SkipSpace(s, 1) + 1))

\* json.Unmarshal of the text into an ErrorResponse
AsErrorResponse(s) ==
    [ Error   |-> MapGet(Decoded(s), "error", ""),
      Command |-> MapGet(Decoded(s), "command", ""),
      Stderr  |-> MapGet(Decoded(s), "stderr", "") ]

\* the messages, commands and standard error texts formatted
ErrorTexts == {"boom", "exit status 1: \"x\""}

CommandTexts == {"", "tool x y"}

StderrTexts == {"", "denied", "a<b\\c\n", "bad ~ byte"}

DoFormatError ==
    \E e \in ErrorTexts, command \in CommandTexts, stderr \in StderrTexts :
        /\ out' = <<"FormatError", e, command, stderr, FormatError(e, command, stderr)>>
        /\ call' = <<"FormatError">>
        /\ UNCHANGED <<config, b, args, h, ex, res, bs>>


NextResult ==
    \/ DoParseJSON
    \/ DoToJSONString
    \/ DoIsEmpty
    \/ DoFormatError

SpecResult == InitResult /\ [][NextResult]_vars

\* the payloads that are well-formed JSON
WellFormedPayloads == {"[1, 2]", "{\"a\":[]}", "7"}

\* the payloads and the target types they can be decoded into
Decodable ==
    { <<"[1, 2]", "any">>, <<"[1, 2]", "[]any">>,
      <<"{\"a\":[]}", "any">>, <<"{\"a\":[]}", "map[string]any">>,
      <<"7", "any">>, <<"7", "int">> }

\* the well-formed payloads as json.Indent with indent "  " writes them
IndentedForm(p) ==
    CASE p = "[1, 2]"       -> "[\n  1,\n  2\n]"
      [] p = "{\"a\":[]}"   -> "{\n  \"a\": []\n}"
      [] p = "7"            -> "7"

(* C19: ParseJSON on a Result without payload returns an error whose text   *)
(* contains "no JSON output" and leaves the target as it was; with a        *)
(* payload it returns nil exactly when the payload is well-formed JSON that *)
(* the target can hold, and the decoder's error otherwise.                  *)
C19_ParseJSON ==
    out[1] = "ParseJSON" =>
        /\ Result.JSON = Nil =>
               /\ out[4].err # Nil
               /\ Contains(out[4].err[1], "no JSON output")
               /\ out[4].target = out[3]
        /\ Result.JSON # Nil =>
               /\ (out[4].err = Nil) <=> (<<Result.JSON[1], out[2]>> \in Decodable)
               /\ out[4].err # Nil => ~Contains(out[4].err[1], "no JSON output")
               /\ out[4].err = Nil => out[4].target # out[3]

\* no payload: the error is returned and the earlier value of the target kept
C19_Witness ==
    /\ out[1] = "ParseJSON"
    /\ Result.JSON = Nil
    /\ Result.Stdout = "plain text output"
    /\ out[3] = <<"number", "5">>
    /\ out[4] = [err |-> Some("no JSON output available"), target |-> <<"number", "5">>]

(* C20: ToJSONString returns the payload re-indented when it is present     *)
(* and well-formed, the payload unchanged when it is present and malformed, *)
(* and Stdout when there is no payload; with a payload, what it returns     *)
(* does not depend on Stdout.                                               *)
C20_ToJSONString ==
    out[1] = "ToJSONString" =>
        /\ (Result.JSON # Nil /\ Result.JSON[1] \in WellFormedPayloads) =>
               out[2] = IndentedForm(Result.JSON[1])
        /\ (Result.JSON # Nil /\ Result.JSON[1] \notin WellFormedPayloads) =>
               out[2] = Result.JSON[1]
        /\ Result.JSON = Nil => out[2] = Result.Stdout
        /\ Result.JSON # Nil =>
               \A s \in ResultStdouts : ToJSONString([Result EXCEPT !.Stdout = s]) = out[2]

\* a well-formed payload is re-indented, and Stdout is left aside
C20_Witness ==
    /\ out = <<"ToJSONString", "[\n  1,\n  2\n]">>
    /\ Result.JSON = Some("[1, 2]")
    /\ Result.Stdout = "plain text output"

\* the Result of a successful Execute whose output is only white space
BlankResult == ExecuteReturn("json", NoError, " \n", "").result[1]

(* C21: IsEmpty returns true exactly when the Result has no payload and     *)
(* its Stdout is the empty string; the Result of a successful Execute       *)
(* whose output is only white space has no payload and is not empty; and    *)
(* Stderr and ExitCode have no part in the answer.                          *)
C21_IsEmpty ==
    out[1] = "IsEmpty" =>
        /\ out[2] <=> (Result.JSON = Nil /\ Len(Result.Stdout) = 0)
        /\ Result = BlankResult => (Result.JSON = Nil /\ out[2] = FALSE)
        /\ \A stderr \in {"", "some warning"}, code \in {-1, 0, 2} :
               IsEmpty([Result EXCEPT !.Stderr = stderr, !.ExitCode = code]) = out[2]

\* the Result of a successful Execute with blank output is not empty
C21_Witness ==
    /\ out = <<"IsEmpty", FALSE>>
    /\ Result = BlankResult
    /\ Result.JSON = Nil

\* the text is valid UTF-8
ValidUTF8(s) == ~Contains(s, "~")

\* the serialized form carries error, and command and stderr when not empty
C22_Fields ==
    DOMAIN Decoded(out[5]) =
        {"error"} \cup (IF out[3] # "" THEN {"command"} ELSE {})
                  \cup (IF out[4] # "" THEN {"stderr"} ELSE {})

(* C22 as stated: for every message, command and standard error text,       *)
(* decoding FormatError's output as an ErrorResponse gives the three texts  *)
(* back, and the output omits command (stderr) exactly when it is empty.    *)
C22_Original ==
    out[1] = "FormatError" =>
        /\ AsErrorResponse(out[5]) = [Error |-> out[2], Command |-> out[3], Stderr |-> out[4]]
        /\ C22_Fields

(* C22: for every message, command and standard error text that is valid    *)
(* UTF-8, decoding FormatError's output as an ErrorResponse gives the three *)
(* texts back; a byte that is not valid UTF-8 comes back as U+FFFD; the     *)
(* output always carries error and omits command (stderr) exactly when it   *)
(* is empty.                                                                *)
C22_RoundTrip ==
    out[1] = "FormatError" =>
        /\ (ValidUTF8(out[2]) /\ ValidUTF8(out[3]) /\ ValidUTF8(out[4])) =>
               AsErrorResponse(out[5]) =
                   [Error |-> out[2], Command |-> out[3], Stderr |-> out[4]]
        /\ AsErrorResponse(out[5]).Error = out[2]
        /\ out[4] = "bad ~ byte" => AsErrorResponse(out[5]).Stderr = "bad ? byte"
        /\ C22_Fields

\* texts with quotes, a backslash, a line break and < come back unchanged
C22_Witness ==
    /\ out[1] = "FormatError"
    /\ out[2] = "exit status 1: \"x\""
    /\ out[3] = ""
    /\ out[4] = "a<b\\c\n"
    /\ out[5] = "{\n  \"error\": \"exit status 1: \\\"x\\\"\",\n  \"stderr\": \"a\\u003cb\\\\c\\n\"\n}"

-----------------------------------------------------------------------------
(* LoadConfig: the Config read from the environment at start-up.            *)
(* Durations are in milliseconds in this part.                              *)

\* the variables LoadConfig reads
EnvKeys == {"GCLOUD_PROJECT", "GCLOUD_REGION", "GCLOUD_ZONE", "GCLOUD_PATH", "GCLOUD_TIMEOUT"}

\* os.Getenv: the value of the variable, "" when it is not set
Getenv(env, key) == IF env[key] = Nil THEN "" ELSE env[key][1]

\* bug: a variable that is set to the empty string is taken as it is
getEnv_SetWins(env, key, defaultVal) ==
    IF env[key] # Nil THEN env[key][1] ELSE defaultVal

getEnv(env, key, defaultVal) ==
    IF Getenv(env, key) # "" THEN Getenv(env, key) ELSE defaultVal

\* the number the digits s[i..j-1] denote
RECURSIVE Atoi(_, _, _)
Atoi(s, i, j) ==
    IF j <= i THEN 0
    ELSE 10 * Atoi(s, i, j - 1) + (CHOOSE d \in 0..9 : ToString(d) = Ch(s, j - 1))

\* the index past the unit that begins at i: a unit runs up to the next digit
\* or point
RECURSIVE UnitEnd(_, _)
UnitEnd(s, i) ==
    IF i > Len(s) \/ Ch(s, i) \in Digits \/ Ch(s, i) = "." THEN i ELSE UnitEnd(s, i + 1)

\* the duration of a unit of time.ParseDuration, 0 for an unknown unit
UnitOf(u) ==
    CASE u = "ms" -> 1
      [] u = "s"  -> 1000
      [] u = "m"  -> 60000
      [] u = "h"  -> 3600000
      [] OTHER    -> 0

\* the components of a duration from i on: whole digits and a unit, repeated
\* (fractions are outside the texts drawn here)
RECURSIVE Components(_, _)
Components(s, i) ==
    IF i > Len(s) THEN [ok |-> TRUE, d |-> 0]
    ELSE LET j == ScanDigits(s, i)
             k == UnitEnd(s, j)
             rest == Components(s, k)
         IN  IF j = i \/ UnitOf(SubSeq(s, j, k - 1)) = 0 \/ ~rest.ok
             THEN [ok |-> FALSE, d |-> 0]
             ELSE [ok |-> TRUE, d |-> Atoi(s, i, j) * UnitOf(SubSeq(s, j, k - 1)) + rest.d]

\* time.ParseDuration: an optional sign, then "0" or a list of components
ParseDuration(s) ==
    LET signed == Ch(s, 1) \in {"-", "+"}
        t == IF signed THEN SubSeq(s, 2, Len(s)) ELSE s
        c == Components(t, 1)
    IN  IF t = "0" THEN [ok |-> TRUE, d |-> 0]
        ELSE IF t = "" \/ ~c.ok THEN [ok |-> FALSE, d |-> 0]
        ELSE [ok |-> TRUE, d |-> IF Ch(s, 1) = "-" THEN 0 - c.d ELSE c.d]

getDurationEnv(env, key, defaultVal) ==
    IF Getenv(env, key) # "" /\ ParseDuration(Getenv(env, key)).ok
    THEN ParseDuration(Getenv(env, key)).d
    ELSE defaultVal

\* 5*time.Minute
DefaultTimeout == 300000

\* bug: the settings are read with getEnv_SetWins
LoadConfig_SetWins(env) ==
    [ Project        |-> getEnv_SetWins(env, "GCLOUD_PROJECT", ""),
      Region         |-> getEnv_SetWins(env, "GCLOUD_REGION", ""),
      Zone           |-> getEnv_SetWins(env, "GCLOUD_ZONE", ""),
      GCloudPath     |-> getEnv_SetWins(env, "GCLOUD_PATH", "gcloud"),
      CommandTimeout |-> getDurationEnv(env, "GCLOUD_TIMEOUT", DefaultTimeout) ]

LoadConfig(env) ==
    [ Project        |-> getEnv(env, "GCLOUD_PROJECT", ""),
      Region         |-> getEnv(env, "GCLOUD_REGION", ""),
      Zone           |-> getEnv(env, "GCLOUD_ZONE", ""),
      GCloudPath     |-> getEnv(env, "GCLOUD_PATH", "gcloud"),
      CommandTimeout |-> getDurationEnv(env, "GCLOUD_TIMEOUT", DefaultTimeout) ]

\* the Config before LoadConfig has run
ZeroConfig ==
    [Project |-> "", Region |-> "", Zone |-> "", GCloudPath |-> "", CommandTimeout |-> 0]

\* a variable is not set, set to the empty string, or set to a text
TimeoutTexts == {"30s", "1m30s", "250ms", "invalid", "90", "5x", "0", "0s", "-5s"}

Environments ==
    { [ GCLOUD_PROJECT |-> p, GCLOUD_REGION |-> r, GCLOUD_ZONE |-> z,
        GCLOUD_PATH |-> g, GCLOUD_TIMEOUT |-> t ] :
        p \in {Nil, Some("my-project")},
        r \in {Nil, Some(""), Some("europe-west1")},
        z \in {Nil, Some("europe-west1-b")},
        g \in {Nil, Some(""), Some("/opt/sdk/bin/gcloud")},
        t \in {Nil, Some("")} \cup {Some(x) : x \in TimeoutTexts} }

\* the outputs of a process that exits at once with code 0
PromptStdouts == {"", "[]"}

\* the environment of the process, kept with the call
Env == call[2]

InitConfig ==
    /\ config = ZeroConfig
    /\ \E env \in Environments : call = <<"main", env>>
    /\ b = Nil
    /\ args = << >>
    /\ h = NoHistory
    /\ ex = NoExec
    /\ res = NoReturn
    /\ out = NoOut
    /\ bs = << >>

DoLoadConfig ==
    /\ call[1] = "main"
    /\ config' = LoadConfig(Env)
    /\ call' = <<"LoadConfig", Env>>
    /\ UNCHANGED <<b, args, h, ex, res, out, bs>>

\* a handler creates its builder from the Config loaded
ConfigCommand ==
    /\ call[1] = "LoadConfig"
    /\ b' = Command(config, ExecComponents)
    /\ call' = <<"Command", Env>>
    /\ UNCHANGED <<config, args, h, ex, res, out, bs>>

\* Execute at time 0 on a process that exits at once with code 0: cmd.Run()
\* starts no process under a context that is already done
ConfigExecute ==
    /\ call[1] = "Command"
    /\ args' \in BuildSet(b)
    /\ \E stdout \in PromptStdouts :
           LET ctx == WithTimeout(Background, 0, config.CommandTimeout)
           IN  res' = IF Done(ctx, 0)
                      THEN ExecuteReturn(b.format, OtherError(CtxErr(ctx)), "", "")
                      ELSE ExecuteReturn(b.format, NoError, stdout, "")
    /\ call' = <<"Execute", Env>>
    /\ UNCHANGED <<config, b, h, ex, out, bs>>

NextConfig ==
    \/ DoLoadConfig
    \/ ConfigCommand
    \/ ConfigExecute

SpecConfig == InitConfig /\ [][NextConfig]_vars

\* LoadConfig has run
Loaded == call[1] \in {"LoadConfig", "Command", "Execute"}

\* the value a text setting takes: the variable when set and not empty
Setting(key, defaultVal) ==
    IF Env[key] \in {Nil, Some("")} THEN defaultVal ELSE Env[key][1]

\* the durations of the texts that parse
ParsedTimeouts ==
    [ t \in {"30s", "1m30s", "250ms", "0", "0s", "-5s"} |->
        CASE t = "30s" -> 30000
          [] t = "1m30s" -> 90000
          [] t = "250ms" -> 250
          [] t = "-5s" -> 0 - 5000
          [] OTHER -> 0 ]

C24_Original ==
    (call[1] = "Command" /\ Env.GCLOUD_REGION = Nil /\ Env.GCLOUD_ZONE = Nil) =>
        (b.region = "us-east1" /\ b.zone = "us-east1")

(* C25 as stated: for every environment the Config loaded has a strictly    *)
(* positive CommandTimeout, and a process that exits at once with code 0    *)
(* is reported as a success.                                                *)
C25_Original ==
    /\ Loaded => config.CommandTimeout > 0
    /\ call[1] = "Execute" => res.err = Nil

-----------------------------------------------------------------------------
(* Tool handlers: parameter extraction, then the command.                   *)

\* a key that is not in the arguments map
Missing == [type |-> "missing"]

\* values of map[string]any by dynamic type; a float64 is kept in tenths
Str(s) == [type |-> "string", str |-> s]

F64(tenths) == [type |-> "float64", num |-> tenths]

NativeInt(n) == [type |-> "int", int |-> n]

Bool(x) == [type |-> "bool", bool |-> x]

\* fmt.Errorf: an error with the text given
Errorf(text) == Some(text)

\* bug: the empty string is accepted
GetRequiredString_AllowEmpty(a, key) ==
    IF a[key] = Missing
    THEN [str |-> "", err |-> Errorf("missing required parameter: " \o key)]
    ELSE IF a[key].type # "string"
    THEN [str |-> "", err |-> Errorf("parameter " \o key \o " must be a string")]
    ELSE [str |-> a[key].str, err |-> Nil]

GetRequiredString(a, key) ==
    IF a[key] = Missing
    THEN [str |-> "", err |-> Errorf("missing required parameter: " \o key)]
    ELSE IF a[key].type # "string"
    THEN [str |-> "", err |-> Errorf("parameter " \o key \o " must be a string")]
    ELSE IF a[key].str = ""
    THEN [str |-> "", err |-> Errorf("parameter " \o key \o " cannot be empty")]
    ELSE [str |-> a[key].str, err |-> Nil]

GetOptionalString(a, key, defaultVal) ==
    IF a[key] = Missing THEN defaultVal
    ELSE IF a[key].type # "string" THEN defaultVal
    ELSE a[key].str

\* int(num) of a float64 given in tenths: the fraction is dropped
IntOf(tenths) == IF tenths >= 0 THEN tenths \div 10 ELSE 0 - ((0 - tenths) \div 10)

\* bug: a native int is accepted as well
GetOptionalInt_AnyNumber(a, key, defaultVal) ==
    IF a[key] = Missing THEN defaultVal
    ELSE IF a[key].type = "int" THEN a[key].int
    ELSE IF a[key].type # "float64" THEN defaultVal
    ELSE IntOf(a[key].num)

GetOptionalInt(a, key, defaultVal) ==
    IF a[key] = Missing THEN defaultVal
    ELSE IF a[key].type # "float64" THEN defaultVal
    ELSE IntOf(a[key].num)

GetOptionalBool(a, key, defaultVal) ==
    IF a[key] = Missing THEN defaultVal
    ELSE IF a[key].type # "bool" THEN defaultVal
    ELSE a[key].bool

\* *mcp.CallToolResult with one text content
ToolResult(text) == [IsError |-> FALSE, Content |-> <<text>>]

ToolError(err) == [IsError |-> TRUE, Content |-> <<err[1]>>]

\* the handlers modelled
Tools ==
    { "gcp_compute_instances_describe", "gcp_functions_describe",
      "gcp_functions_call", "gcp_functions_logs_read" }

\* the two required parameters of a handler, in the order it reads them
Required1(tool) == IF tool = "gcp_compute_instances_describe" THEN "instance" ELSE "function"

Required2(tool) == IF tool = "gcp_compute_instances_describe" THEN "zone" ELSE "region"

ArgKeys == {"instance", "function", "zone", "region", "project", "limit", "data", "min_log_level"}

\* the arguments a client sends
NameValues == {Missing, Str(""), Str("fn-1"), NativeInt(123)}

ScopeArgValues == {Missing, Str(""), Str("us-west1"), Bool(TRUE)}

ProjectValues == {Missing, Str("p1")}

LimitValues == {Missing, F64(1000), F64(27), F64(0 - 27), NativeInt(100), Str("not a number")}

BoolValues == {Missing, Bool(TRUE), Bool(FALSE), Str("true")}

StringValues == {Missing, Str(""), Str("us-west1"), NativeInt(123)}

ArgsOf(tool) ==
    { [ k \in ArgKeys |->
          IF k = Required1(tool) THEN n
          ELSE IF k = Required2(tool) THEN s
          ELSE IF k = "project" THEN p
          ELSE IF k = "limit" THEN l
          ELSE Missing ] :
        n \in NameValues, s \in ScopeArgValues, p \in ProjectValues, l \in LimitValues }

\* the Config of the server: GCLOUD_REGION is set, nothing else
HandlerConfig ==
    LoadConfig([k \in EnvKeys |-> IF k = "GCLOUD_REGION" THEN Some("europe-west1") ELSE Nil])

\* the handler in flight: its position, tool, arguments and the two
\* required values read so far
Pc == call[1]

Tool == call[2]

ToolArgs == call[3]

InitHandler ==
    /\ config = HandlerConfig
    /\ \E tool \in Tools : \E a \in ArgsOf(tool) : call = <<"start", tool, a, "", "">>
    /\ b = Nil
    /\ args = << >>
    /\ h = NoHistory
    /\ ex = NoExec
    /\ res = NoReturn
    /\ out = NoOut
    /\ bs = << >>

\* return services.ToolError(err), nil
ReturnError(err) ==
    /\ out' = <<"CallToolResult", ToolError(err), Nil>>
    /\ call' = <<"returned", Tool, ToolArgs, call[4], call[5]>>
    /\ UNCHANGED <<config, b, args, h, ex, res, bs>>

HandleRequired1 ==
    /\ Pc = "start"
    /\ LET r == GetRequiredString(ToolArgs, Required1(Tool))
       IN  IF r.err # Nil THEN ReturnError(r.err)
           ELSE /\ call' = <<"first", Tool, ToolArgs, r.str, "">>
                /\ UNCHANGED <<config, b, args, h, ex, res, out, bs>>

HandleRequired2 ==
    /\ Pc = "first"
    /\ LET r == GetRequiredString(ToolArgs, Required2(Tool))
       IN  IF r.err # Nil THEN ReturnError(r.err)
           ELSE /\ call' = <<"second", Tool, ToolArgs, call[4], r.str>>
                /\ UNCHANGED <<config, b, args, h, ex, res, out, bs>>

\* cmd.WithFlag(name, value) under if value != ""
WithFlagIfSet(bb, name, value) == IF value # "" THEN WithFlag(bb, name, value) ELSE bb

\* the builder a handler makes from its parameters
HandlerBuilder(tool, a, first, second) ==
    LET project == GetOptionalString(a, "project", "")
    IN  CASE tool = "gcp_compute_instances_describe" ->
               WithProject(WithZone(Command(config, <<"compute", "instances", "describe", first>>),
                                    second), project)
          [] tool = "gcp_functions_describe" ->
               WithProject(WithRegion(Command(config, <<"functions", "describe", first>>),
                                      second), project)
          [] tool = "gcp_functions_call" ->
               WithTextFormat(
                   WithFlagIfSet(
                       WithProject(WithRegion(Command(config, <<"functions", "call", first>>),
                                              second), project),
                       "data", GetOptionalString(a, "data", "")))
          [] tool = "gcp_functions_logs_read" ->
               WithFlagIfSet(
                   WithFlag(
                       WithProject(WithRegion(Command(config, <<"functions", "logs", "read", first>>),
                                              second), project),
                       "limit", ToString(GetOptionalInt(a, "limit", 50))),
                   "min-log-level", GetOptionalString(a, "min_log_level", ""))

HandleBuild ==
    /\ Pc = "second"
    /\ b' = HandlerBuilder(Tool, ToolArgs, call[4], call[5])
    /\ call' = <<"built", Tool, ToolArgs, call[4], call[5]>>
    /\ UNCHANGED <<config, args, h, ex, res, out, bs>>

\* the terminal call a handler makes
Terminal(tool) ==
    CASE tool = "gcp_compute_instances_describe" -> "ExecuteWithZone"
      [] tool = "gcp_functions_describe"         -> "ExecuteWithRegion"
      [] tool = "gcp_functions_call"             -> "ExecuteWithRegion"
      [] tool = "gcp_functions_logs_read"        -> "Execute"

\* the terminal call on a process that exits in time, and the tool result
\* made of what it returns
HandleExecute ==
    /\ Pc = "built"
    /\ b' = ApplyCall(b, <<Terminal(Tool)>>)
    /\ args' \in BuildSet(b')
    /\ \E o \in ProcOutcomes :
           LET runErr == IF o[1] = 0 THEN NoError ELSE ExitError(o[1])
               ret == ExecuteReturn(b.format, runErr, o[2], o[3])
           IN  /\ ex' = [NoExec EXCEPT !.pc = "returned", !.n = 1, !.runs = 1, !.procs = 1,
                                       !.runErr = runErr, !.stdout = o[2], !.stderr = o[3]]
               /\ res' = ret
               /\ out' = <<"CallToolResult",
                           IF ret.err # Nil THEN ToolError(ret.err)
                           ELSE ToolResult(ToJSONString(ret.result[1])),
                           Nil>>
    /\ call' = <<"returned", Tool, ToolArgs, call[4], call[5]>>
    /\ UNCHANGED <<config, h, bs>>

\* the optional extractors on one key
DoGetOptionalString ==
    /\ Pc = "start"
    /\ \E v \in StringValues, d \in {"", "latest"} :
           out' = <<"GetOptionalString", v, d, GetOptionalString([version |-> v], "version", d)>>
    /\ call' = <<"helper", Tool, ToolArgs, "", "">>
    /\ UNCHANGED <<config, b, args, h, ex, res, bs>>

DoGetOptionalInt ==
    /\ Pc = "start"
    /\ \E v \in LimitValues, d \in {50, 100} :
           out' = <<"GetOptionalInt", v, d, GetOptionalInt([limit |-> v], "limit", d)>>
    /\ call' = <<"helper", Tool, ToolArgs, "", "">>
    /\ UNCHANGED <<config, b, args, h, ex, res, bs>>

DoGetOptionalBool ==
    /\ Pc = "start"
    /\ \E v \in BoolValues, d \in BOOLEAN :
           out' = <<"GetOptionalBool", v, d, GetOptionalBool([verbose |-> v], "verbose", d)>>
    /\ call' = <<"helper", Tool, ToolArgs, "", "">>
    /\ UNCHANGED <<config, b, args, h, ex, res, bs>>

NextHandler ==
    \/ HandleRequired1
    \/ HandleRequired2
    \/ HandleBuild
    \/ HandleExecute
    \/ DoGetOptionalString
    \/ DoGetOptionalInt
    \/ DoGetOptionalBool

SpecHandler == InitHandler /\ [][NextHandler]_vars

\* a required parameter is there, a string, and not empty
Usable(v) == v.type = "string" /\ v.str # ""

\* the text of the error GetRequiredString gives for an argument
RequiredErrorText(key, v) ==
    CASE v = Missing         -> "missing required parameter: " \o key
      [] v.type # "string"   -> "parameter " \o key \o " must be a string"
      [] OTHER               -> "parameter " \o key \o " cannot be empty"

\* the first required parameter that is not usable
FirstBad == IF Usable(ToolArgs[Required1(Tool)]) THEN Required2(Tool) ELSE Required1(Tool)

BothUsable == Usable(ToolArgs[Required1(Tool)]) /\ Usable(ToolArgs[Required2(Tool)])

\* the handler has made a builder, or a process has been spawned
CoreReached == Pc \in {"built"} \/ b # Nil \/ args # << >> \/ ex.procs > 0 \/ res # NoReturn

(* C26: when a required string parameter is missing, not a string or empty, *)
(* GetRequiredString returns an error and the handler returns an error tool *)
(* result (IsError true, nil Go error) with no builder made and no process  *)
(* spawned; otherwise the value is returned unchanged and reaches the       *)
(* command.                                                                 *)
C26_ValidationPrecedes ==
    Pc # "helper" =>
        /\ CoreReached => BothUsable
        /\ (Pc = "returned" /\ ~BothUsable) =>
               /\ out = <<"CallToolResult",
                          [ IsError |-> TRUE,
                            Content |-> <<RequiredErrorText(FirstBad, ToolArgs[FirstBad])>> ],
                          Nil>>
               /\ ~CoreReached
        /\ (Pc = "returned" /\ BothUsable) => ex.procs = 1
        /\ Pc \in {"first", "second", "built"} => call[4] = ToolArgs[Required1(Tool)].str
        /\ Pc \in {"second", "built"} => call[5] = ToolArgs[Required2(Tool)].str
        /\ Pc = "built" =>
               /\ b.components[Len(b.components)] = ToolArgs[Required1(Tool)].str
               /\ ToolArgs[Required2(Tool)].str \in {b.region, b.zone}

\* the describe handler of compute returns an error for an empty zone after
\* it has read a usable instance
C26_Witness ==
    /\ Pc = "returned"
    /\ Tool = "gcp_compute_instances_describe"
    /\ ToolArgs["instance"] = Str("fn-1")
    /\ ToolArgs["zone"] = Str("")
    /\ out = <<"CallToolResult",
               [IsError |-> TRUE, Content |-> <<"parameter zone cannot be empty">>], Nil>>
    /\ b = Nil
    /\ ex.procs = 0

\* the int a float64 argument of LimitValues converts to
ConvertedLimits ==
    [ v \in {F64(1000), F64(27), F64(0 - 27)} |->
        CASE v = F64(1000) -> 100
          [] v = F64(27) -> 2
          [] OTHER -> 0 - 2 ]

(* C27: GetOptionalString, GetOptionalInt and GetOptionalBool return the    *)
(* default when the key is absent or its value has another dynamic type     *)
(* (for GetOptionalInt any type but float64, a native int included), and    *)
(* the value supplied otherwise (the float64 converted to int); they return *)
(* no error.                                                                *)
C27_OptionalParameters ==
    /\ out[1] = "GetOptionalString" =>
           out[4] = IF out[2].type = "string" THEN out[2].str ELSE out[3]
    /\ out[1] = "GetOptionalInt" =>
           out[4] = IF out[2] \in DOMAIN ConvertedLimits THEN ConvertedLimits[out[2]] ELSE out[3]
    /\ out[1] = "GetOptionalBool" =>
           out[4] = IF out[2].type = "bool" THEN out[2].bool ELSE out[3]
    /\ (Pc = "built" /\ Tool = "gcp_functions_logs_read") =>
           b.flags["limit"] =
               IF ToolArgs["limit"] \in DOMAIN ConvertedLimits
               THEN ToString(ConvertedLimits[ToolArgs["limit"]])
               ELSE "50"

\* a native int is not taken: the default comes back
C27_Witness == out = <<"GetOptionalInt", NativeInt(100), 50, 50>>

(* C30 as stated: for every handler that takes a required region and passes *)
(* it to WithRegion, the argument list of the command spawned contains      *)
(* --region=<caller region>.                                                *)
C30_Original ==
    (Pc = "returned" /\ ex.procs = 1 /\ Required2(Tool) = "region") =>
        \E i \in 1..Len(args) : args[i] = "--region=" \o call[5]

-----------------------------------------------------------------------------
(* One builder called more than once: setters and terminal calls in any     *)
(* order, with the calls made kept in bs.                                   *)

\* calls made on the builder
MaxTrace == 3

\* the setters drawn
TraceSetters ==
    { <<"WithFlag", "region", "a">>, <<"WithFlag", "region", "b">>,
      <<"WithFlag", "zone", "b">>, <<"WithRegion", "b">>, <<"WithZone", "b">>,
      <<"WithBoolFlag", "quiet">> }

\* Build and the terminal calls
TraceTerminals ==
    { <<"Build">>, <<"Execute">>, <<"ExecuteWithRegion">>, <<"ExecuteWithZone">> }

\* the builder after call c
TraceApply(bb, c) == IF c = <<"Build">> THEN bb ELSE ApplyCall(bb, c)

InitTrace ==
    /\ config \in Configs
    /\ b = Command(config, ExecComponents)
    /\ call = <<"Command">>
    /\ args = << >>
    /\ h = NoHistory
    /\ ex = NoExec
    /\ res = NoReturn
    /\ out = NoOut
    /\ bs = << >>

TraceSetter ==
    \E c \in TraceSetters :
        /\ Len(bs) < MaxTrace
        /\ b' = TraceApply(b, c)
        /\ bs' = Append(bs, c)
        /\ call' = c
        /\ UNCHANGED <<config, args, h, ex, res, out>>

\* bug: the builder is put back as it was once the list is built
TraceTerminal_Restoring ==
    \E c \in TraceTerminals :
        /\ Len(bs) < MaxTrace
        /\ b' = b
        /\ args' \in BuildSet(TraceApply(b, c))
        /\ bs' = Append(bs, c)
        /\ call' = c
        /\ UNCHANGED <<config, h, ex, res, out>>

\* Build, or a terminal call: the list built, or run
TraceTerminal ==
    \E c \in TraceTerminals :
        /\ Len(bs) < MaxTrace
        /\ b' = TraceApply(b, c)
        /\ args' \in BuildSet(b')
        /\ bs' = Append(bs, c)
        /\ call' = c
        /\ UNCHANGED <<config, h, ex, res, out>>

NextTrace ==
    \/ TraceSetter
    \/ TraceTerminal

SpecTrace == InitTrace /\ [][NextTrace]_vars

\* the lists Build may return, as multisets of tokens
BuildBags(bb) == {BagOf(a) : a \in BuildSet(bb)}

\* list a without the tokens that begin with p
RECURSIVE Without(_, _)
Without(a, p) ==
    IF a = << >> THEN << >>
    ELSE IF HasPrefix(Head(a), p) THEN Without(Tail(a), p)
    ELSE <<Head(a)>> \o Without(Tail(a), p)

\* the value of the last WithFlag(name, v) the caller made before the last
\* call, "" if none
CallerFlag(name) ==
    LET idx == {i \in 1..(Len(bs) - 1) : bs[i][1] = "WithFlag" /\ bs[i][2] = name}
    IN  IF idx = {} THEN ""
        ELSE bs[CHOOSE i \in idx : \A j \in idx : j <= i][3]

\* a step that is Build or a terminal call
TerminalStep == bs' # bs /\ call' \in TraceTerminals

(* C28 as stated: the multiset of tokens Build returns is the same before   *)
(* and after a call of Execute, ExecuteWithRegion or ExecuteWithZone.       *)
C28_Original ==
    [][TerminalStep => BuildBags(b') = BuildBags(b)]_vars

(* C28: Build and Execute leave the builder as it was. ExecuteWithRegion    *)
(* with a non-empty region stores the region as the flag "region" before    *)
(* it runs and leaves everything else: the lists Build returns afterwards   *)
(* carry exactly one --region token, --region=<region>, next to the tokens  *)
(* they had without --region; with an empty region the builder is as it     *)
(* was. ExecuteWithZone does the same with the zone. A stored flag stays:   *)
(* the list of every later Build or terminal call carries it.               *)
C28_TerminalEffect ==
    /\ [][TerminalStep =>
            /\ call' \in {<<"Build">>, <<"Execute">>} => b' = b
            /\ (call' = <<"ExecuteWithRegion">> /\ b.region = "") => b' = b
            /\ (call' = <<"ExecuteWithZone">> /\ b.zone = "") => b' = b
            /\ (call' = <<"ExecuteWithRegion">> /\ b.region # "") =>
                   /\ \A a \in BuildSet(b') :
                          /\ CountToken(a, "--region=" \o b.region) = 1
                          /\ CountPrefix(a, "--region=") = 1
                   /\ {BagOf(Without(a, "--region=")) : a \in BuildSet(b')} =
                          {BagOf(Without(a, "--region=")) : a \in BuildSet(b)}
            /\ (call' = <<"ExecuteWithZone">> /\ b.zone # "") =>
                   /\ \A a \in BuildSet(b') :
                          /\ CountToken(a, "--zone=" \o b.zone) = 1
                          /\ CountPrefix(a, "--zone=") = 1
                   /\ {BagOf(Without(a, "--zone=")) : a \in BuildSet(b')} =
                          {BagOf(Without(a, "--zone=")) : a \in BuildSet(b)}
            /\ \A n \in DOMAIN b.flags :
                   CountPrefix(args', "--" \o n \o "=") = 1
         ]_vars
    /\ []((call \in TraceTerminals /\ Len(bs) > 0) => args \in BuildSet(b))

\* a generic Execute after ExecuteWithRegion carries the region of the Config
C28_Witness ==
    /\ bs = << <<"ExecuteWithRegion">>, <<"Execute">> >>
    /\ config.Region = "a"
    /\ CountToken(args, "--region=a") = 1

(* C29 as stated: when the caller has set WithFlag("region", r1) and the    *)
(* region field is another non-empty value r2, the command run by           *)
(* ExecuteWithRegion carries --region=r1; likewise for zone and             *)
(* ExecuteWithZone.                                                         *)
C29_Original ==
    /\ ( /\ call = <<"ExecuteWithRegion">>
         /\ CallerFlag("region") # ""
         /\ b.region \notin {"", CallerFlag("region")} ) =>
           CountToken(args, "--region=" \o CallerFlag("region")) = 1
    /\ ( /\ call = <<"ExecuteWithZone">>
         /\ CallerFlag("zone") # ""
         /\ b.zone \notin {"", CallerFlag("zone")} ) =>
           CountToken(args, "--zone=" \o CallerFlag("zone")) = 1

(* C29: when the caller has set WithFlag("region", r1) and the region field *)
(* is another non-empty value r2, ExecuteWithRegion replaces the caller's   *)
(* flag: the command carries --region=r2 and no other --region token;       *)
(* likewise for zone and ExecuteWithZone.                                   *)
C29_FieldWins ==
    /\ ( /\ call = <<"ExecuteWithRegion">>
         /\ CallerFlag("region") # ""
         /\ b.region \notin {"", CallerFlag("region")} ) =>
           /\ CountToken(args, "--region=" \o b.region) = 1
           /\ CountPrefix(args, "--region=") = 1
    /\ ( /\ call = <<"ExecuteWithZone">>
         /\ CallerFlag("zone") # ""
         /\ b.zone \notin {"", CallerFlag("zone")} ) =>
           /\ CountToken(args, "--zone=" \o b.zone) = 1
           /\ CountPrefix(args, "--zone=") = 1

\* the caller's region b gives way to the region a of the Config
C29_Witness ==
    /\ bs = << <<"WithFlag", "region", "b">>, <<"ExecuteWithRegion">> >>
    /\ config.Region = "a"
    /\ CountToken(args, "--region=a") = 1
    /\ CountToken(args, "--region=b") = 0

====
